---------------------------- MODULE Spec2Model ----------------------------
(***************************************************************************)
(* A model of wotlk_cat_sim.Simulation: the bleed/buff bookkeeping of the  *)
(* cast handlers, the rotation decision engine (execute_rotation) and the  *)
(* main loop of run.                                                       *)
(*                                                                         *)
(* Units.  Simulated time is an integer number of 1/200 s.  Every time the *)
(* program computes from its inputs is a multiple of 0.05 s (10 units), so *)
(* the 1e-9 tolerance of the source is modelled by Eps = 1 unit: it is     *)
(* positive and smaller than any difference between two distinct event     *)
(* times, which is all the source relies on.  Energy is an integer number  *)
(* of half points (Berserk halves the Energy costs to x.5 values); Rage is *)
(* in whole points.                                                        *)
(***************************************************************************)
EXTENDS Integers, Sequences, FiniteSets, TLC

\* ---------------------------------------------------------------- units
Sec(n) == 200 * n
Ds(n) == 20 * n
Cs(n) == 2 * n
En(n) == 2 * n
HalfEn(n) == n

Min(a, b) == IF a <= b THEN a ELSE b
Max(a, b) == IF a >= b THEN a ELSE b

\* The tolerance 1e-9 of the source.
Eps == 1
\* np.inf
Infinity == 1000000000

\* numpy.arange(start, stop, step): start + k*step for 0 <= k < ceil((stop-start)/step)
ARange(start, stop, step) ==
    IF stop <= start THEN << >>
    ELSE [k \in 1..((stop - start + step - 1) \div step) |-> start + (k - 1) * step]

\* list.pop(0)
Pop0(s) == Tail(s)

\* ---------------------------------------------------------------- bounds
\* Number of random draws of a run that may deviate from the plain outcome
\* (a cast that does not land, a critical strike, a Clearcasting proc).
MaxLuck == 1

\* How many times run() is called on one Simulation object.
MaxRuns == 2

\* ------------------------------------------------- strategy and encounter
\* Simulation.default_strategy
default_strategy ==
    [ min_combos_for_rip |-> 5, use_rake |-> FALSE, use_bite |-> TRUE,
      bite_time |-> Sec(8), min_combos_for_bite |-> 5, mangle_spam |-> FALSE,
      bear_mangle |-> FALSE, use_berserk |-> FALSE, prepop_berserk |-> FALSE,
      preproc_omen |-> FALSE, bearweave |-> FALSE,
      berserk_bite_thresh |-> En(100), lacerate_prio |-> FALSE,
      lacerate_time |-> Sec(10), powerbear |-> FALSE,
      min_roar_offset |-> Sec(10) ]

\* Attributes of the Player that stay fixed during a run, and the
\* constructor arguments fight_length and latency.
default_setup ==
    [ fight_length |-> Sec(30), latency |-> Ds(1),
      omen |-> FALSE, shred_glyph |-> TRUE, berserk_glyph |-> FALSE,
      furor |-> 5, rip_duration |-> Sec(12), swing_timer |-> Sec(1),
      swing_timer_start |-> 0, revitalize_frequency |-> Infinity,
      sunder |-> FALSE, mana_pool |-> 2000, shift_cost |-> 600 ]

\* kwargs of Simulation.__init__ override the defaults key by key.
Override(base, kwargs) ==
    [k \in DOMAIN base |-> IF k \in DOMAIN kwargs THEN kwargs[k] ELSE base[k]]

Scenario(setup, kwargs) ==
    [setup |-> Override(default_setup, setup),
     strategy |-> Override(default_strategy, kwargs)]


\* ------------------------------------------------------------------ state
VARIABLES
    cfg,            \* the scenario: strategy dictionary and fixed attributes
    self,           \* the attributes of the Simulation object
    player,         \* the attributes of the Player object
    time,           \* local variable time of run
    previous_time,  \* local variable previous_time of run
    times,          \* the sample series: its length and its last entry
    num_hot_ticks,  \* local variable num_hot_ticks of run
    dmg_done,       \* local variable dmg_done of run
    damage,         \* the damage series: its length and its sum
    dmg_breakdown,  \* player.dmg_breakdown: the damage credited per ability
    params,         \* self.params: the Sunder Armor stacks on the boss
    damage_params,  \* the params the Player's damage ranges were derived from
    trinkets,       \* self.trinkets: the debuff controller and the trackers
    aura_hist,      \* history of the tracked auras, read by the properties
    series,         \* digests of the times, damage, energy, combos lists
    log,            \* the argument log of run
    combat_log,     \* self.combat_log: the number of its entries
    runs,           \* the calls of run so far and the draws of the first
    pool,           \* run_replicates: the parent, the workers, the replicates
    error,          \* the exception a call was left with, if any
    pc,             \* position in the body of the main loop
    luck,           \* random draws that may still deviate (see MaxLuck)
    obs             \* history of the current step, read by the properties

vars == <<cfg, self, player, time, previous_time, times, num_hot_ticks,
          dmg_done, damage, dmg_breakdown, params, damage_params, trinkets,
          aura_hist, series, log, combat_log, runs, pool, error, pc, luck,
          obs>>

\* The state of the trinket objects and what they write.
trinket_vars == <<params, damage_params, trinkets>>

strategy == cfg.strategy
setup == cfg.setup
fight_length == setup.fight_length
latency == setup.latency

\* ----------------------------------------------------------------- Player
\* The Player class is a collaborator of the simulation: what follows is
\* the part of its contract the simulation relies on.

\* Player.set_ability_costs: Berserk halves every Energy cost.
Cost(p, base) == IF p.berserk THEN HalfEn(base) ELSE En(base)
shred_cost(p) == Cost(p, 42)
rake_cost(p) == Cost(p, 35)
mangle_cost(p) == Cost(p, 35)
base_mangle_cost == En(35)
bite_cost(p) == Cost(p, 35)
rip_cost(p) == Cost(p, 30)
roar_cost(p) == Cost(p, 25)

\* Player.roar_durations
roar_durations(cp) == Sec(9 + 5 * cp)

\* Rage generated by one white hit in Dire Bear Form, cost of Maul.
SwingRage == 12
MaulCost == 10
LacerateCost == 13
BearMangleCost == 15

Outcomes == {"hit", "miss", "crit"}
Landed(outcome) == outcome # "miss"

\* Player.reset
PlayerReset ==
    [ energy |-> En(100), combo_points |-> 0, rage |-> 0, gcd |-> 0,
      cat_form |-> TRUE, savage_roar |-> FALSE, berserk |-> FALSE,
      berserk_cd |-> 0, tf_cd |-> 0, enrage |-> FALSE, enrage_cd |-> 0,
      mangle_cd |-> 0, omen_proc |-> FALSE, ready_to_shift |-> FALSE,
      last_shift |-> 0 - Sec(10), mana |-> setup.mana_pool ]

\* Player.regen: 10 Energy per second, capped at 100.
PlayerRegen(p, delta_t) ==
    [p EXCEPT !.energy = Min(En(100), p.energy + delta_t \div 10)]

\* Energy spent by a cast: nothing under Clearcasting, a fifth on a miss.
Spend(p, cost, outcome) ==
    IF p.omen_proc THEN p.energy
    ELSE Max(0, p.energy - (IF Landed(outcome) THEN cost ELSE cost \div 5))

\* A combo-point builder in Cat Form (Shred, Rake, Mangle).
PlayerBuilder(p, cost, outcome) ==
    [p EXCEPT !.energy = Spend(p, cost, outcome),
              !.omen_proc = FALSE,
              !.gcd = Sec(1),
              !.combo_points =
                  Min(5, p.combo_points + (CASE outcome = "miss" -> 0
                                             [] outcome = "hit" -> 1
                                             [] outcome = "crit" -> 2))]

\* Player.rip: consumes the combo points when it lands.
PlayerRip(p, outcome) ==
    [p EXCEPT !.energy = Spend(p, rip_cost(p), outcome),
              !.omen_proc = FALSE,
              !.gcd = Sec(1),
              !.combo_points = IF Landed(outcome) THEN 0 ELSE p.combo_points]

\* Player.bite: spends its cost plus up to 30 more Energy.
PlayerBite(p, outcome) ==
    [p EXCEPT !.energy =
                  IF Landed(outcome)
                  THEN Max(0, p.energy - bite_cost(p) - En(30))
                  ELSE Spend(p, bite_cost(p), outcome),
              !.gcd = Sec(1),
              !.combo_points = IF Landed(outcome) THEN 0 ELSE p.combo_points]

\* Player.roar: always lands.
PlayerRoar(p) ==
    [p EXCEPT !.energy = p.energy - roar_cost(p),
              !.savage_roar = TRUE,
              !.gcd = Sec(1),
              !.combo_points = 0]

\* Lacerate and Mangle in Dire Bear Form.
PlayerBearCast(p, cost, outcome) ==
    [p EXCEPT !.rage = p.rage - (IF Landed(outcome) THEN cost ELSE cost \div 5),
              !.gcd = Ds(15)]

PlayerBearMangle(p, outcome) ==
    [PlayerBearCast(p, BearMangleCost, outcome) EXCEPT !.mangle_cd = Sec(6)]

\* A white hit: in Dire Bear Form it generates Rage; it may proc Clearcasting.
PlayerSwing(p, proc) ==
    [p EXCEPT !.rage = IF p.cat_form THEN p.rage ELSE Min(100, p.rage + SwingRage),
              !.omen_proc = p.omen_proc \/ proc]

PlayerMaul(p, proc) ==
    [p EXCEPT !.rage = p.rage - MaulCost, !.omen_proc = p.omen_proc \/ proc]

furor_cap == Min(20 * setup.furor, 85)

\* Player.shift: 1.5 s global cooldown, Furor sets the resource of the new form.
PlayerShift(p, t, powershift) ==
    IF p.cat_form /\ ~powershift
    THEN [p EXCEPT !.cat_form = FALSE, !.rage = 10, !.gcd = Ds(15),
                   !.last_shift = t, !.ready_to_shift = FALSE,
                   !.mana = @ - setup.shift_cost]
    ELSE IF powershift
    THEN [p EXCEPT !.rage = 10, !.enrage = FALSE, !.gcd = Ds(15),
                   !.last_shift = t, !.ready_to_shift = FALSE,
                   !.mana = @ - setup.shift_cost]
    ELSE [p EXCEPT !.cat_form = TRUE, !.enrage = FALSE,
                   !.energy = Min(p.energy, En(furor_cap)), !.gcd = Ds(15),
                   !.last_shift = t, !.ready_to_shift = FALSE,
                   !.mana = @ - setup.shift_cost]

\* Energy (half points) regenerated in dt: the source writes 10 * dt.
RegenOver(dt) == dt \div 10
\* Time needed to regenerate e half points: the source writes e / 10.
TimeToRegen(e) == 10 * e

\* Damage tables of the Player (per-tick damage before modifiers).
rip_tick(cp) == 1000 * cp
rake_tick == 2000
lacerate_tick == 400

\* The entries of Player.dmg_breakdown.
Abilities == {"Melee", "Maul", "Mangle", "Rake", "Lacerate", "Shred", "Bite",
              "Rip", "Savage Roar"}

\* The casts whose Player function deals damage at once.
DirectDamage == {"Mangle", "Rake", "Lacerate", "Shred", "Bite"}

\* damage_done of the Player's cast functions: nothing on a miss, twice the
\* hit on a crit.  Each function credits what it returns to its own entry
\* of dmg_breakdown.
PlayerDamage(ability, p, outcome) ==
    LET base == CASE ability = "Shred" -> 3000
                  [] ability = "Mangle" -> 2400
                  [] ability = "Rake" -> 900
                  [] ability = "Lacerate" -> 700
                  [] ability = "Bite" -> 1000 + 600 * p.combo_points
    IN CASE outcome = "miss" -> 0
         [] outcome = "hit" -> base
         [] outcome = "crit" -> 2 * base

\* Player.swing and Player.maul
PlayerSwingDamage(p) == IF p.cat_form THEN 500 ELSE 1100
PlayerMaulDamage(p) == 1900

Credit(breakdown, ability, amount) ==
    [breakdown EXCEPT ![ability] = @ + amount]

\* -------------------------------------------------------------- Simulation
\* The attributes run() gives the Simulation before the loop starts.
\* Python's None, where a time is expected.
None == 0 - 1

SimReset ==
    [ time_to_oom |-> None,
      mangle_debuff |-> strategy.bear_mangle,
      mangle_end |-> IF strategy.bear_mangle THEN Infinity ELSE 0,
      rip_debuff |-> FALSE, rip_start |-> 0, rip_end |-> 0,
      rip_ticks |-> << >>, rip_damage |-> 0, rip_sr_snapshot |-> FALSE,
      rake_debuff |-> FALSE, rake_end |-> 0, rake_ticks |-> << >>,
      rake_damage |-> 0, rake_sr_snapshot |-> FALSE,
      lacerate_debuff |-> FALSE, lacerate_end |-> 0, lacerate_ticks |-> << >>,
      lacerate_stacks |-> 0, lacerate_damage |-> 0, last_lacerate_tick |-> 0,
      roar_end |-> 0, tf_end |-> 0, berserk_end |-> 0,
      tigers_fury |-> FALSE, next_action |-> 0,
      swing_times |-> << >>, swing_timer |-> 0, proc_end_times |-> << >> ]

\* The aura attributes of the Simulation (the debuffs on the target).
AuraFields ==
    { "mangle_debuff", "mangle_end",
      "rip_debuff", "rip_start", "rip_end", "rip_ticks", "rip_damage",
      "rip_sr_snapshot",
      "rake_debuff", "rake_end", "rake_ticks", "rake_damage",
      "rake_sr_snapshot",
      "lacerate_debuff", "lacerate_end", "lacerate_ticks", "lacerate_stacks",
      "lacerate_damage", "last_lacerate_tick" }

\* A cast handler returns the Simulation and the Player after the cast.
After(s, p) == [s |-> s, p |-> p]

\* Simulation.mangle (either form)
mangle(s, p, t, outcome) ==
    After(IF Landed(outcome)
          THEN [s EXCEPT !.mangle_debuff = TRUE,
                         !.mangle_end = IF strategy.bear_mangle THEN Infinity
                                        ELSE t + Sec(60)]
          ELSE s,
          IF p.cat_form THEN PlayerBuilder(p, mangle_cost(p), outcome)
          ELSE PlayerBearMangle(p, outcome))

\* Simulation.rake
rake(s, p, t, outcome) ==
    After(IF Landed(outcome)
          THEN [s EXCEPT !.rake_debuff = TRUE,
                         !.rake_end = t + Sec(9),
                         !.rake_ticks = ARange(t + Sec(3), t + Cs(901), Sec(3)),
                         !.rake_damage = rake_tick,
                         !.rake_sr_snapshot = p.savage_roar]
          ELSE s,
          PlayerBuilder(p, rake_cost(p), outcome))

\* A faulty refresh that restarts the tick cadence from the cast time.
LacerateRefreshFromCast(s, t) ==
    [s EXCEPT !.lacerate_end = t + Sec(15),
              !.lacerate_ticks = s.lacerate_ticks \o
                  ARange(t + Sec(3), t + Sec(15) + Eps, Sec(3)),
              !.lacerate_stacks = Min(s.lacerate_stacks + 1, 5)]

\* A faulty refresh that forgets the cap of 5 stacks.
LacerateRefreshUncapped(s, t) ==
    LET last_tick == IF s.lacerate_ticks # << >>
                     THEN s.lacerate_ticks[Len(s.lacerate_ticks)]
                     ELSE s.last_lacerate_tick
    IN [s EXCEPT !.lacerate_end = t + Sec(15),
                 !.lacerate_ticks = s.lacerate_ticks \o
                     ARange(last_tick + Sec(3), t + Sec(15) + Eps, Sec(3)),
                 !.lacerate_stacks = s.lacerate_stacks + 1]

\* The branch of Simulation.lacerate that refreshes an active Lacerate.
LacerateRefresh(s, t) ==
    LET last_tick == IF s.lacerate_ticks # << >>
                     THEN s.lacerate_ticks[Len(s.lacerate_ticks)]
                     ELSE s.last_lacerate_tick
        lacerate_end == t + Sec(15)
    IN [s EXCEPT !.lacerate_end = lacerate_end,
                 !.lacerate_ticks = s.lacerate_ticks \o
                     ARange(last_tick + Sec(3), lacerate_end + Eps, Sec(3)),
                 !.lacerate_stacks = Min(s.lacerate_stacks + 1, 5)]

\* The branch of Simulation.lacerate that applies a new Lacerate.
LacerateApply(s, t) ==
    [s EXCEPT !.lacerate_end = t + Sec(15),
              !.lacerate_debuff = TRUE,
              !.lacerate_ticks = ARange(t + Sec(3), t + Sec(16), Sec(3)),
              !.lacerate_stacks = 1]

\* lacerate_tick * stacks * (1 + 0.15 * enrage)
LacerateDamage(stacks, enrage) ==
    (lacerate_tick * stacks * (IF enrage THEN 115 ELSE 100)) \div 100

\* Simulation.lacerate
lacerate(s, p, t, outcome) ==
    LET s1 == IF s.lacerate_debuff THEN LacerateRefresh(s, t)
              ELSE LacerateApply(s, t)
    IN After(IF Landed(outcome)
             THEN [s1 EXCEPT !.lacerate_damage =
                       LacerateDamage(s1.lacerate_stacks, p.enrage)]
             ELSE s,
             PlayerBearCast(p, LacerateCost, outcome))

\* Simulation.rip
rip(s, p, t, outcome) ==
    LET rip_end == t + setup.rip_duration
    IN After(IF Landed(outcome)
             THEN [s EXCEPT !.rip_debuff = TRUE,
                            !.rip_start = t,
                            !.rip_end = rip_end,
                            !.rip_ticks = ARange(t + Sec(2), rip_end + Eps, Sec(2)),
                            !.rip_damage = rip_tick(p.combo_points),
                            !.rip_sr_snapshot = p.savage_roar]
             ELSE s,
             PlayerRip(p, outcome))

\* A faulty Glyph of Shred that extends Rip without the 6-second cap.
GlyphOfShredUncapped(s) ==
    [s EXCEPT !.rip_end = s.rip_end + Sec(2),
              !.rip_ticks = Append(s.rip_ticks, s.rip_end + Sec(2))]

\* Glyph of Shred: the body of the success branch of Simulation.shred.
GlyphOfShred(s) ==
    IF (s.rip_end - s.rip_start) < setup.rip_duration + Sec(6)
    THEN [s EXCEPT !.rip_end = s.rip_end + Sec(2),
                   !.rip_ticks = Append(s.rip_ticks, s.rip_end + Sec(2))]
    ELSE s

\* A faulty Shred whose glyph extends Rip whether or not the Shred landed.
shredIgnoringOutcome(s, p, outcome) ==
    After(IF s.rip_debuff /\ setup.shred_glyph THEN GlyphOfShred(s) ELSE s,
          PlayerBuilder(p, shred_cost(p), outcome))

\* Simulation.shred
shred(s, p, outcome) ==
    After(IF Landed(outcome) /\ s.rip_debuff /\ setup.shred_glyph
          THEN GlyphOfShred(s)
          ELSE s,
          PlayerBuilder(p, shred_cost(p), outcome))

\* ------------------------------------------------- decision engine: gates
\* Simulation.berserk_expected_at
berserk_expected_at(s, p, current_time, future_time) ==
    IF p.berserk
    THEN (future_time < s.berserk_end)
         \/ (future_time > current_time + p.berserk_cd)
    ELSE IF p.berserk_cd > Eps
    THEN future_time > current_time + p.berserk_cd
    ELSE IF s.tigers_fury /\ strategy.use_berserk
    THEN future_time > s.tf_end
    ELSE FALSE

\* Simulation.tf_expected_before
tf_expected_before(s, p, current_time, future_time) ==
    IF p.tf_cd > Eps
    THEN current_time + p.tf_cd < future_time
    ELSE IF p.berserk
    THEN s.berserk_end < future_time
    ELSE TRUE

\* Simulation.can_bite with the empirical bite_time parameter
can_bite(s, t) ==
    /\ s.rip_end - t >= strategy.bite_time
    /\ s.roar_end - t >= strategy.bite_time

\* A faulty clip test that does not look at when the current Roar ends.
clip_roarIgnoringCurrentEnd(s, p, t) ==
    IF (~s.rip_debuff) \/ (fight_length - s.rip_end < Sec(10))
    THEN FALSE
    ELSE t + roar_durations(p.combo_points)
             >= s.rip_start + setup.rip_duration
                + (IF setup.shred_glyph THEN Sec(6) ELSE 0)
                + strategy.min_roar_offset

\* Simulation.clip_roar
clip_roar(s, p, t) ==
    IF (~s.rip_debuff) \/ (fight_length - s.rip_end < Sec(10))
    THEN FALSE
    ELSE LET max_rip_dur == setup.rip_duration
                              + (IF setup.shred_glyph THEN Sec(6) ELSE 0)
             rip_end == s.rip_start + max_rip_dur
             new_roar_end == t + roar_durations(p.combo_points)
         IN IF s.roar_end > rip_end
            THEN FALSE
            ELSE new_roar_end >= rip_end + strategy.min_roar_offset

end_thresh == Sec(10)

\* A faulty Rip gate that does not look at the time left in the fight.
rip_nowIgnoringFightEnd(s, p, t) ==
    /\ p.combo_points >= strategy.min_combos_for_rip
    /\ ~s.rip_debuff
    /\ ~p.omen_proc

rip_now(s, p, t) ==
    /\ p.combo_points >= strategy.min_combos_for_rip
    /\ ~s.rip_debuff
    /\ fight_length - t >= end_thresh
    /\ ~p.omen_proc

\* A faulty condition that does not look at the combo points.
bite_at_endWhateverTheCombos(s, p, t) ==
    \/ fight_length - t < end_thresh
    \/ (s.rip_debuff /\ (fight_length - s.rip_end < end_thresh))

bite_at_end(s, p, t) ==
    /\ p.combo_points >= strategy.min_combos_for_bite
    /\ \/ fight_length - t < end_thresh
       \/ (s.rip_debuff /\ (fight_length - s.rip_end < end_thresh))

\* A faulty Mangle gate that is closed while Clearcasting is pending.
mangle_nowUnlessProc(s, p, t) ==
    (~rip_now(s, p, t)) /\ (~s.mangle_debuff) /\ (~p.omen_proc)

mangle_now(s, p, t) == (~rip_now(s, p, t)) /\ (~s.mangle_debuff)

bite_before_rip(s, p, t) ==
    /\ p.combo_points >= strategy.min_combos_for_bite
    /\ s.rip_debuff
    /\ p.savage_roar
    /\ strategy.use_bite
    /\ can_bite(s, t)

\* bite_now, including the Energy constraint that applies during Berserk
bite_now(s, p, t) ==
    LET b == (bite_before_rip(s, p, t) \/ bite_at_end(s, p, t))
             /\ ~p.omen_proc
    IN IF b /\ p.berserk
       THEN p.energy <= strategy.berserk_bite_thresh
       ELSE b

rake_now(s, p, t) ==
    /\ strategy.use_rake
    /\ ~s.rake_debuff
    /\ fight_length - t > Sec(9)
    /\ ~p.omen_proc

berserk_now(s, p, t) ==
    /\ strategy.use_berserk
    /\ p.berserk_cd < Eps
    /\ p.tf_cd > Sec(15) + (IF setup.berserk_glyph THEN Sec(5) ELSE 0)

roar_now(s, p, t) ==
    /\ p.combo_points >= 1
    /\ (~p.savage_roar) \/ clip_roar(s, p, t)

\* --------------------------------------- decision engine: pending refreshes
rip_refresh_pending(s) ==
    s.rip_debuff /\ (s.rip_end < fight_length - end_thresh)

\* list.sort() on (time, cost) pairs
PairLeq(a, b) == (a[1] < b[1]) \/ (a[1] = b[1] /\ a[2] <= b[2])

RECURSIVE SortPairs(_)
SortPairs(q) ==
    IF q = << >> THEN << >>
    ELSE LET i == CHOOSE i \in 1..Len(q) :
                      \A j \in 1..Len(q) : PairLeq(q[i], q[j])
         IN <<q[i]>> \o SortPairs(SubSeq(q, 1, i - 1) \o SubSeq(q, i + 1, Len(q)))

\* The list pending_actions of execute_rotation, sorted.
pending_actions(s, p, t) ==
    LET halved(end, base) ==
            IF berserk_expected_at(s, p, t, end) THEN HalfEn(base) ELSE En(base)
        rip_q == IF rip_refresh_pending(s)
                 THEN << <<s.rip_end, halved(s.rip_end, 30)>> >> ELSE << >>
        rake_q == IF s.rake_debuff /\ (s.rake_end < fight_length - Sec(9))
                  THEN << <<s.rake_end, halved(s.rake_end, 35)>> >> ELSE << >>
        mangle_q == IF s.mangle_debuff /\ (s.mangle_end < fight_length - Sec(1))
                    THEN << <<s.mangle_end,
                              IF berserk_expected_at(s, p, t, s.mangle_end)
                              THEN base_mangle_cost \div 2
                              ELSE base_mangle_cost>> >>
                    ELSE << >>
        roar_q == IF p.savage_roar
                  THEN << <<s.roar_end, halved(s.roar_end, 25)>> >> ELSE << >>
    IN SortPairs(rip_q \o rake_q \o mangle_q \o roar_q)

\* A faulty loop that forgets the Energy of the refreshes that
\* regeneration pays for.
RECURSIVE FloatLoopWithoutCredit(_, _, _, _)
FloatLoopWithoutCredit(pending, i, floating, previous) ==
    IF i > Len(pending) THEN floating
    ELSE LET refresh_time == pending[i][1]
             refresh_cost == pending[i][2]
             delta_t == refresh_time - previous
         IN IF delta_t < TimeToRegen(refresh_cost)
            THEN FloatLoopWithoutCredit(pending, i + 1,
                     floating + refresh_cost - RegenOver(delta_t),
                     refresh_time)
            ELSE FloatLoopWithoutCredit(pending, i + 1, floating, previous)

\* The loop of execute_rotation that accumulates floating_energy.
RECURSIVE FloatLoop(_, _, _, _)
FloatLoop(pending, i, floating, previous) ==
    IF i > Len(pending) THEN floating
    ELSE LET refresh_time == pending[i][1]
             refresh_cost == pending[i][2]
             delta_t == refresh_time - previous
         IN IF delta_t < TimeToRegen(refresh_cost)
            THEN FloatLoop(pending, i + 1,
                           floating + refresh_cost - RegenOver(delta_t),
                           refresh_time)
            ELSE FloatLoop(pending, i + 1, floating,
                           previous + TimeToRegen(refresh_cost))

floating_energy(s, p, t) == FloatLoop(pending_actions(s, p, t), 1, 0, t)

\* A faulty excess that forgets the reservation for the pending refreshes.
excess_eWithoutReservation(s, p, t) == p.energy

excess_e(s, p, t) == p.energy - floating_energy(s, p, t)

\* ------------------------------------------- decision engine: bearweaving
weave_energy ==
    En(furor_cap) - En(30) - 2 * RegenOver(latency)
    - (IF setup.furor > 3 THEN En(15) ELSE 0)

weave_end(t) == t + Ds(45) + 2 * latency

bearweave_now(s, p, t) ==
    LET b == /\ strategy.bearweave
             /\ p.energy <= weave_energy
             /\ ~p.omen_proc
             /\ (~rip_refresh_pending(s)) \/ (s.rip_end >= weave_end(t))
             /\ ~p.berserk
    IN IF b /\ ~strategy.lacerate_prio
       THEN ~tf_expected_before(s, p, t, weave_end(t))
       ELSE b

emergency_bearweave(s, p, t) ==
    /\ strategy.bearweave
    /\ strategy.lacerate_prio
    /\ s.lacerate_debuff
    /\ s.lacerate_end - t < Ds(25) + latency
    /\ s.lacerate_end < fight_length

\* ------------------------------------------------------------ swing timer
\* Simulation.update_swing_times
update_swing_times(s, t, new_swing_timer, first_swing) ==
    LET start_time ==
            IF first_swing THEN t
            ELSE t + ((s.swing_times[1] - t) * new_swing_timer) \div s.swing_timer
    IN [s EXCEPT !.swing_timer = new_swing_timer,
                 !.swing_times =
                     IF start_time > fight_length - new_swing_timer
                     THEN <<start_time, start_time + new_swing_timer>>
                     ELSE ARange(start_time, fight_length + new_swing_timer,
                                 new_swing_timer)]

\* list.append(x) followed by list.sort(), on a sorted list of numbers
AppendAndSort(q, x) ==
    LET k == Cardinality({i \in 1..Len(q) : q[i] <= x})
    IN SubSeq(q, 1, k) \o <<x>> \o SubSeq(q, k + 1, Len(q))

\* A faulty activation that does not start the cooldown of Berserk.
apply_berserkWithoutCooldown(s, p, t, prepop) ==
    After([s EXCEPT !.berserk_end =
                        t + Sec(15) + (IF setup.berserk_glyph THEN Sec(5) ELSE 0)],
          [p EXCEPT !.berserk = TRUE,
                    !.gcd = IF prepop THEN 0 ELSE Sec(1)])

\* Simulation.apply_berserk
apply_berserk(s, p, t, prepop) ==
    After([s EXCEPT !.berserk_end =
                        t + Sec(15) + (IF setup.berserk_glyph THEN Sec(5) ELSE 0)],
          [p EXCEPT !.berserk = TRUE,
                    !.gcd = IF prepop THEN 0 ELSE Sec(1),
                    !.berserk_cd = Sec(180) - (IF prepop THEN Sec(1) ELSE 0)])

\* Simulation.apply_tigers_fury
apply_tigers_fury(s, p, t) ==
    After([s EXCEPT !.tigers_fury = TRUE,
                    !.tf_end = t + Sec(6),
                    !.next_action = t + latency,
                    !.proc_end_times =
                        AppendAndSort(s.proc_end_times, t + Sec(30))],
          [p EXCEPT !.energy = Min(En(100), p.energy + En(60)),
                    !.tf_cd = Sec(30)])

\* ------------------------------------------- decision engine: Dire Bear Form
bear_shift_base(s, p, t) ==
    \/ p.energy + En(15) + RegenOver(latency) > En(furor_cap)
    \/ rip_refresh_pending(s) /\ (s.rip_end < t + Sec(3))

shift_next(s, p, t) ==
    \/ p.energy + En(30) + RegenOver(latency) > En(furor_cap)
    \/ rip_refresh_pending(s) /\ (s.rip_end < t + Ds(45))

powerbear_now(s, p, t) ==
    strategy.powerbear /\ (~bear_shift_base(s, p, t)) /\ (p.rage < 10)

build_lacerate(s) == (~s.lacerate_debuff) \/ (s.lacerate_stacks < 5)

maintain_lacerate(s, p, t) ==
    /\ ~build_lacerate(s)
    /\ s.lacerate_end - t <= strategy.lacerate_time
    /\ (p.rage < 38) \/ shift_next(s, p, t)
    /\ s.lacerate_end < fight_length

lacerate_now(s, p, t) ==
    strategy.lacerate_prio /\ (build_lacerate(s) \/ maintain_lacerate(s, p, t))

emergency_lacerate(s, p, t) ==
    /\ strategy.lacerate_prio
    /\ s.lacerate_debuff
    /\ s.lacerate_end - t < Sec(3) + 2 * latency
    /\ s.lacerate_end < fight_length

shift_now(s, p, t) ==
    LET a == IF strategy.powerbear THEN bear_shift_base(s, p, t)
             ELSE bear_shift_base(s, p, t) \/ (p.rage < 10)
    IN IF (~strategy.lacerate_prio) \/ (~lacerate_now(s, p, t))
       THEN a \/ p.omen_proc
       ELSE a

\* The branch execute_rotation takes in Dire Bear Form.
BearBranch(s, p, t) ==
    IF emergency_lacerate(s, p, t) /\ (p.rage >= 13) THEN "emergency_lacerate"
    ELSE IF shift_now(s, p, t) THEN "shift_now"
    ELSE IF powerbear_now(s, p, t) THEN "powerbear"
    ELSE IF lacerate_now(s, p, t) /\ (p.rage >= 13) THEN "lacerate"
    ELSE IF (p.rage >= 15) /\ (p.mangle_cd < Eps) THEN "bear_mangle"
    ELSE IF p.rage >= 13 THEN "lacerate_filler"
    ELSE "bear_wait"

\* A faulty priority list that tries Rip before Savage Roar.
CatBranchRipFirst(s, p, t) ==
    IF emergency_bearweave(s, p, t) THEN "emergency_bearweave"
    ELSE IF berserk_now(s, p, t) THEN "berserk"
    ELSE IF rip_now(s, p, t) THEN "rip"
    ELSE IF roar_now(s, p, t) THEN "roar"
    ELSE IF bite_now(s, p, t) THEN "bite"
    ELSE IF rake_now(s, p, t) THEN "rake"
    ELSE IF mangle_now(s, p, t) THEN "mangle"
    ELSE IF bearweave_now(s, p, t) THEN "bearweave"
    ELSE IF strategy.mangle_spam /\ ~p.omen_proc THEN "mangle_spam"
    ELSE "shred"

\* A faulty priority list that tries the bearweave before every other gate.
CatBranchBearweaveFirst(s, p, t) ==
    IF emergency_bearweave(s, p, t) THEN "emergency_bearweave"
    ELSE IF bearweave_now(s, p, t) THEN "bearweave"
    ELSE IF berserk_now(s, p, t) THEN "berserk"
    ELSE IF roar_now(s, p, t) THEN "roar"
    ELSE IF rip_now(s, p, t) THEN "rip"
    ELSE IF bite_now(s, p, t) THEN "bite"
    ELSE IF rake_now(s, p, t) THEN "rake"
    ELSE IF mangle_now(s, p, t) THEN "mangle"
    ELSE IF strategy.mangle_spam /\ ~p.omen_proc THEN "mangle_spam"
    ELSE "shred"

\* The branch execute_rotation takes in Cat Form.
CatBranch(s, p, t) ==
    IF emergency_bearweave(s, p, t) THEN "emergency_bearweave"
    ELSE IF berserk_now(s, p, t) THEN "berserk"
    ELSE IF roar_now(s, p, t) THEN "roar"
    ELSE IF rip_now(s, p, t) THEN "rip"
    ELSE IF bite_now(s, p, t) THEN "bite"
    ELSE IF rake_now(s, p, t) THEN "rake"
    ELSE IF mangle_now(s, p, t) THEN "mangle"
    ELSE IF bearweave_now(s, p, t) THEN "bearweave"
    ELSE IF strategy.mangle_spam /\ ~p.omen_proc THEN "mangle_spam"
    ELSE "shred"

Branch(s, p, t) ==
    IF p.ready_to_shift THEN "shift"
    ELSE IF ~p.cat_form THEN BearBranch(s, p, t)
    ELSE CatBranch(s, p, t)

\* ------------------------------------------------ decision engine: action
\* What one call of execute_rotation did: the Simulation and the Player
\* after it, the ability cast ("none" when nothing was cast) and whether the
\* cast rolled for hit and crit.
Did(sp, cast, rolled) ==
    [s |-> sp.s, p |-> sp.p, cast |-> cast, rolled |-> rolled]

\* A faulty tail that does not cut the wait at the first pending refresh.
ScheduleNextIgnoringPending(s, p, t, time_to_next_action, cast) ==
    Did(After([s EXCEPT !.next_action = t + time_to_next_action + latency], p),
        cast, FALSE)

\* The tail of execute_rotation: schedule the next decision.
ScheduleNext(s, p, t, time_to_next_action, cast) ==
    LET pending == pending_actions(s, p, t)
        next_action == IF pending # << >>
                       THEN Min(t + time_to_next_action, pending[1][1])
                       ELSE t + time_to_next_action
    IN Did(After([s EXCEPT !.next_action = next_action + latency], p),
           cast, FALSE)

\* Cast if the Energy is there (or Clearcasting allows it), otherwise wait.
CastOrWait(s, p, t, affordable, available, cost, done) ==
    IF affordable THEN done
    ELSE ScheduleNext(s, p, t, TimeToRegen(cost - available), "none")

\* A faulty flagging that lets the decision engine run again at once.
FlagShiftWithoutLatency(s, p, t) ==
    Did(After([s EXCEPT !.next_action = t],
              [p EXCEPT !.ready_to_shift = TRUE]),
        "none", FALSE)

FlagShift(s, p, t) ==
    ScheduleNext(s, [p EXCEPT !.ready_to_shift = TRUE], t, 0, "none")

\* "if (self.player.mana < 0) and (not self.time_to_oom)": None and 0.0
\* both count as not set.
time_to_oom(current, mana, t) ==
    IF (mana < 0) /\ ((current = None) \/ (current = 0)) THEN t ELSE current

\* Simulation.execute_rotation
execute_rotation(s, p, t, outcome) ==
    LET b == Branch(s, p, t)
        e == p.energy
        x == excess_e(s, p, t)
    IN CASE b = "shift" ->
              LET p1 == PlayerShift(p, t, FALSE)
                  s1 == [s EXCEPT
                            !.time_to_oom = time_to_oom(@, p1.mana, t)]
                  timer == IF p1.cat_form THEN (s.swing_timer * 2) \div 5
                           ELSE (s.swing_timer * 5) \div 2
              IN Did(After(update_swing_times(s1, s.swing_times[1], timer,
                                              TRUE),
                           p1),
                     "Shift", FALSE)
         [] b \in {"emergency_lacerate", "lacerate", "lacerate_filler"} ->
              Did(lacerate(s, p, t, outcome), "Lacerate", TRUE)
         [] b = "shift_now" -> FlagShift(s, p, t)
         [] b = "powerbear" ->
              ScheduleNext(s, PlayerShift(p, t, TRUE), t, 0, "Powershift")
         [] b = "bear_mangle" -> Did(mangle(s, p, t, outcome), "Mangle", TRUE)
         [] b = "bear_wait" ->
              ScheduleNext(s, p, t, s.swing_times[1] - t, "none")
         [] b \in {"emergency_bearweave", "bearweave"} -> FlagShift(s, p, t)
         [] b = "berserk" -> Did(apply_berserk(s, p, t, FALSE), "Berserk", FALSE)
         [] b = "roar" ->
              CastOrWait(s, p, t, e >= roar_cost(p), e, roar_cost(p),
                  Did(After([s EXCEPT !.roar_end =
                                 t + roar_durations(p.combo_points)],
                            PlayerRoar(p)),
                      "Roar", FALSE))
         [] b = "rip" ->
              CastOrWait(s, p, t, (e >= rip_cost(p)) \/ p.omen_proc, e,
                  rip_cost(p), Did(rip(s, p, t, outcome), "Rip", TRUE))
         [] b = "bite" ->
              CastOrWait(s, p, t, e >= bite_cost(p), e, bite_cost(p),
                  Did(After(s, PlayerBite(p, outcome)), "Bite", TRUE))
         [] b = "rake" ->
              CastOrWait(s, p, t, (e >= rake_cost(p)) \/ p.omen_proc, e,
                  rake_cost(p), Did(rake(s, p, t, outcome), "Rake", TRUE))
         [] b = "mangle" ->
              CastOrWait(s, p, t, (e >= mangle_cost(p)) \/ p.omen_proc, e,
                  mangle_cost(p), Did(mangle(s, p, t, outcome), "Mangle", TRUE))
         [] b = "mangle_spam" ->
              CastOrWait(s, p, t, x >= mangle_cost(p), x, mangle_cost(p),
                  Did(mangle(s, p, t, outcome), "Mangle", TRUE))
         [] b = "shred" ->
              CastOrWait(s, p, t, (x >= shred_cost(p)) \/ p.omen_proc, x,
                  shred_cost(p), Did(shred(s, p, outcome), "Shred", TRUE))

\* ----------------------------------------------------------- ArmorDebuffs
\* A faulty reset that leaves the stacks of the last fight on the boss.
ArmorDebuffsResetKeepingStacks(pa) == pa

\* ArmorDebuffs.reset
ArmorDebuffsReset(pa) == [pa EXCEPT !.sunder = 0]

\* ArmorDebuffs.process_params: the controller and the params it leaves.
process_params(pa) ==
    [debuff_controller |-> [use_sunder |-> pa.sunder # 0],
     params |-> ArmorDebuffsReset(pa)]

\* A faulty test that forgets the schedule and stacks on every update.
SunderDueOnEveryUpdate(ctl, pa, t) == ctl.use_sunder /\ (pa.sunder < 5)

\* The test of ArmorDebuffs.update.
SunderDue(ctl, pa, t) ==
    ctl.use_sunder /\ (pa.sunder < 5) /\ (t >= Ds(15) * pa.sunder)

\* ArmorDebuffs.update: the params, and the params handed to
\* Player.calc_damage_params if a stack was added.
ArmorDebuffsUpdate(ctl, pa, dp, t) ==
    IF SunderDue(ctl, pa, t)
    THEN [params |-> [pa EXCEPT !.sunder = @ + 1],
          damage_params |-> [pa EXCEPT !.sunder = @ + 1],
          applied |-> TRUE]
    ELSE [params |-> pa, damage_params |-> dp, applied |-> FALSE]

\* ---------------------------------------------------------- UptimeTracker
RECURSIVE Gcd(_, _)
Gcd(a, b) == IF b = 0 THEN a ELSE Gcd(b, a % b)

\* A fraction in lowest terms: the value of the float the source computes.
Frac(n, d) == LET g == Gcd(n, d) IN [num |-> n \div g, den |-> d \div g]

\* UptimeTracker.reset
TrackerReset ==
    [uptime |-> Frac(0, 1), last_update |-> Sec(15), active |-> FALSE,
     num_procs |-> 0]

\* A faulty update that weights the old average by the new length of the
\* window.
UptimeTrackerUpdateOverweighted(tr, t, active_now, fl) ==
    IF (t > tr.last_update) /\ (t < fl - Sec(15))
    THEN LET dt == t - tr.last_update
         IN [uptime |->
                 Frac(tr.uptime.num * (t - Sec(15))
                          + dt * (IF active_now THEN 1 ELSE 0) * tr.uptime.den,
                      tr.uptime.den * (t - Sec(15))),
             last_update |-> t,
             active |-> active_now,
             num_procs |-> IF active_now /\ ~tr.active
                           THEN tr.num_procs + 1 ELSE tr.num_procs]
    ELSE tr

\* UptimeTracker.update, given what is_active returns.
UptimeTrackerUpdate(tr, t, active_now, fl) ==
    IF (t > tr.last_update) /\ (t < fl - Sec(15))
    THEN LET dt == t - tr.last_update
         IN [uptime |->
                 Frac(tr.uptime.num * (tr.last_update - Sec(15))
                          + dt * (IF active_now THEN 1 ELSE 0) * tr.uptime.den,
                      tr.uptime.den * (t - Sec(15))),
             last_update |-> t,
             active |-> active_now,
             num_procs |-> IF active_now /\ ~tr.active
                           THEN tr.num_procs + 1 ELSE tr.num_procs]
    ELSE tr

\* UptimeTracker.deactivate
UptimeTrackerDeactivate(tr) == [tr EXCEPT !.active = FALSE]

\* RipTracker.is_active and RoarTracker.is_active
RipTrackerIsActive(s, p) == s.rip_debuff
RoarTrackerIsActive(s, p) == p.savage_roar

\* "for trinket in self.trinkets: dmg_done += trinket.update(...)"
TrinketsUpdate(tk, pa, dp, t, s, p) ==
    LET d == ArmorDebuffsUpdate(tk.debuff_controller, pa, dp, t)
    IN [trinkets |->
            [tk EXCEPT
                !.RipTracker =
                    UptimeTrackerUpdate(@, t, RipTrackerIsActive(s, p),
                                        fight_length),
                !.RoarTracker =
                    UptimeTrackerUpdate(@, t, RoarTrackerIsActive(s, p),
                                        fight_length)],
        params |-> d.params,
        damage_params |-> d.damage_params,
        applied |-> d.applied]

\* The final update at the fight end: what is still up is deactivated.
TrinketsFinal(tk, pa, dp, s, p) ==
    LET u == TrinketsUpdate(tk, pa, dp, fight_length, s, p)
        off(tr) == IF tr.active THEN UptimeTrackerDeactivate(tr) ELSE tr
    IN [u EXCEPT !.trinkets.RipTracker = off(@),
                 !.trinkets.RoarTracker = off(@)]

\* aura_stats: name, proc count and uptime of every trinket that has them.
aura_stats(tk) ==
    << <<"Rip", tk.RipTracker.num_procs, tk.RipTracker.uptime>>,
       <<"Savage Roar", tk.RoarTracker.num_procs, tk.RoarTracker.uptime>> >>

\* What is remembered about the tracked auras: the time each was up inside
\* (15 s, now], the applications inside the measurement window, whether it
\* was up when the last step ended, whether an update inside the window
\* ever found it active, when the stacks were applied, and when Tiger's
\* Fury was cast.
AuraHistInit ==
    [active_time |-> [Rip |-> 0, Roar |-> 0],
     applications |-> [Rip |-> 0, Roar |-> 0],
     up |-> [Rip |-> FALSE, Roar |-> FALSE],
     seen |-> [Rip |-> FALSE, Roar |-> FALSE],
     sunder_at |-> << >>,
     sunder_steps |-> << >>,
     tf_at |-> << >>,
     oom |-> None]

InWindow(t) == (t > Sec(15)) /\ (t < fight_length - Sec(15))

\* An update of tracker tr at time t is inside the window and finds the
\* aura active.
FoundActive(tr, t, active_now) ==
    active_now /\ (t > tr.last_update) /\ InWindow(t)

\* ---------------------------------------------------------------- run()
NoKwargs == [none |-> FALSE]

\* The fights explored: constructor arguments and Player attributes.
Scenarios ==
    { \* the default strategy; the first swing falls on the fight start
      Scenario(NoKwargs, NoKwargs),
      \* Rake, low Rip threshold, Clearcasting, no input latency
      Scenario([swing_timer_start |-> Cs(5), omen |-> TRUE, latency |-> 0],
               [use_rake |-> TRUE, min_combos_for_rip |-> 1,
                min_combos_for_bite |-> 3, bear_mangle |-> TRUE]),
      \* Berserk, Clearcasting
      Scenario([swing_timer_start |-> Cs(5), berserk_glyph |-> TRUE,
                rip_duration |-> Sec(16), omen |-> TRUE],
               [use_berserk |-> TRUE, min_combos_for_rip |-> 3]),
      \* bearweaving with Lacerate maintenance, Sunder Armor being stacked
      Scenario([swing_timer_start |-> Cs(5), fight_length |-> Sec(45),
                sunder |-> TRUE],
               [bearweave |-> TRUE, lacerate_prio |-> TRUE,
                bear_mangle |-> TRUE]),
      \* bearweaving with Lacerate as a filler, without the Glyph of Shred
      Scenario([swing_timer_start |-> Cs(5), fight_length |-> Sec(45),
                shred_glyph |-> FALSE],
               [bearweave |-> TRUE]),
      \* Mangle as the filler, Rake, no Ferocious Bite, Sunder Armor
      Scenario([swing_timer_start |-> Cs(5), sunder |-> TRUE],
               [mangle_spam |-> TRUE, use_rake |-> TRUE, use_bite |-> FALSE,
                min_combos_for_rip |-> 4, min_combos_for_bite |-> 4]),
      \* powershifting bearweaves with a short Lacerate refresh window
      Scenario([swing_timer_start |-> Cs(5), fight_length |-> Sec(45),
                furor |-> 3],
               [bearweave |-> TRUE, powerbear |-> TRUE, lacerate_prio |-> TRUE,
                lacerate_time |-> Sec(4)]),
      \* Berserk and Clearcasting set before the pull, a low Energy
      \* threshold for Ferocious Bite during Berserk
      Scenario([swing_timer_start |-> Cs(5), omen |-> TRUE,
                berserk_glyph |-> TRUE],
               [use_berserk |-> TRUE, prepop_berserk |-> TRUE,
                preproc_omen |-> TRUE, berserk_bite_thresh |-> En(30),
                min_combos_for_rip |-> 3, min_combos_for_bite |-> 3]),
      \* bearweaving with Lacerate maintenance and Clearcasting
      Scenario([swing_timer_start |-> Cs(1), fight_length |-> Sec(45),
                omen |-> TRUE, furor |-> 3, sunder |-> TRUE],
               [bearweave |-> TRUE, powerbear |-> TRUE, lacerate_prio |-> TRUE,
                lacerate_time |-> Sec(4), bear_mangle |-> TRUE]),
      \* Revitalize from a healer's HoTs at 75% uptime (one roll every
      \* 2.5 s), bearweaving with Mangle as the filler
      Scenario([swing_timer_start |-> Cs(5),
                revitalize_frequency |-> Sec(15) \div 6],
               [use_rake |-> TRUE, bearweave |-> TRUE,
                mangle_spam |-> TRUE]) }

\* History variables: what happened in the current step (reset when a
\* step starts) and what is remembered about the current bleed instances.
ObsInit ==
    [ decided |-> FALSE, branch |-> "none", cast |-> "none", landed |-> FALSE,
      swing |-> "none", revitalize |-> FALSE, ticked |-> {}, expired |-> {},
      sr_at_cast |-> [Rip |-> FALSE, Rake |-> FALSE],
      delivered |-> [Rip |-> 0, Rake |-> 0, Lacerate |-> 0],
      last_tick |-> [Rip |-> 0, Rake |-> 0, Lacerate |-> 0],
      gcd_cast_at |-> 0 - Sec(10), gcd_cast_len |-> 0,
      prev_cast_at |-> 0 - Sec(10), pre |-> SimReset,
      pre_p |-> PlayerReset, swing_s |-> SimReset, swing_p |-> PlayerReset,
      revit_p |-> PlayerReset ]

ObsReset(o) ==
    [o EXCEPT !.decided = FALSE, !.branch = "none", !.cast = "none",
              !.landed = FALSE, !.swing = "none", !.revitalize = FALSE,
              !.ticked = {}, !.expired = {}]

\* The output lists energy, combos, times and damage are kept as digests:
\* appending x to a list with digest h gives the digest Digest(h, x).
Digest(h, x) == (h * 31 + (x % 1000003) + 1) % 1000003

SeriesInit == [times |-> 0, damage |-> 0, energy |-> 0, combos |-> 0]

\* A faulty append to the combat log that does not test the flag.
LogAppendUnconditional(cl, lg, n) == cl + n

\* "if self.log: self.combat_log.append(...)", n times
LogAppend(cl, lg, n) == IF lg THEN cl + n ELSE cl

\* "Configure combat logging if requested": a new list when logging, the
\* attribute as it was (or absent, -1) otherwise.
ConfigureLog(cl, lg) == IF lg THEN 0 ELSE cl

\* What run() returns, without the combat log.
Output ==
    [times |-> times, damage |-> damage, series |-> series,
     dmg_breakdown |-> dmg_breakdown, aura_stats |-> aura_stats(trinkets)]

NoOutput ==
    [times |-> [len |-> 0, last |-> 0], damage |-> [len |-> 0, sum |-> 0],
     series |-> SeriesInit, dmg_breakdown |-> [a \in Abilities |-> 0],
     aura_stats |-> << >>]

\* The first call of run draws its random numbers; the draws that deviate
\* from the most likely outcome are kept, and a later call made with the
\* same random draws repeats them.
RunsInit ==
    [count |-> 1, replay |-> FALSE, fresh |-> FALSE, tape |-> {},
     first |-> NoOutput, first_sunder_at |-> << >>, stacks_before |-> 0,
     oom_time |-> None]

Draw(kind) == [step |-> times.len, draw |-> kind]
Taped(kind) == Draw(kind) \in runs.tape

\* The part of run() before the loop: what it assigns, on a Simulation s
\* that may have run before.
Prologue(s) ==
    LET p0 == [PlayerReset EXCEPT
                   !.omen_proc = strategy.preproc_omen /\ setup.omen]
        s0 == [s EXCEPT !.mangle_debuff = strategy.bear_mangle,
                        !.mangle_end = IF strategy.bear_mangle THEN Infinity
                                       ELSE @,
                        !.rip_debuff = FALSE,
                        !.rake_debuff = FALSE,
                        !.lacerate_debuff = FALSE,
                        !.tigers_fury = FALSE,
                        !.next_action = 0,
                        !.proc_end_times = << >>,
                        !.time_to_oom = None]
        s1 == update_swing_times(s0, setup.swing_timer_start,
                                    setup.swing_timer, TRUE)
    IN IF strategy.use_berserk /\ strategy.prepop_berserk
       THEN apply_berserk(s1, p0, 0 - Sec(1), TRUE)
       ELSE After(s1, p0)

\* No batch of replicates is under way.
PoolIdle ==
    [phase |-> "idle", n |-> 0, detailed |-> FALSE, entropy |-> 1,
     calls |-> << >>]

\* No exception.
NoError == [type |-> "none"]

\* A Simulation that was just constructed, at the place at of the program.
Start(at) ==
    /\ cfg \in Scenarios
    /\ LET sp == Prologue(SimReset)
       IN self = sp.s /\ player = sp.p
    /\ time = 0
    /\ previous_time = 0
    /\ times = [len |-> 0, last |-> 0]
    /\ num_hot_ticks = 0
    /\ dmg_done = 0
    /\ damage = [len |-> 0, sum |-> 0]
    /\ dmg_breakdown = [a \in Abilities |-> 0]
    /\ LET c == process_params([sunder |-> IF setup.sunder THEN 1 ELSE 0])
       IN /\ params = c.params
          /\ damage_params = c.params
          /\ trinkets = [debuff_controller |-> c.debuff_controller,
                         RipTracker |-> TrackerReset,
                         RoarTracker |-> TrackerReset]
    /\ aura_hist = AuraHistInit
    /\ series = SeriesInit
    /\ log = FALSE
    /\ combat_log = ConfigureLog(0 - 1, FALSE)
    /\ runs = RunsInit
    /\ pool = PoolIdle
    /\ error = NoError
    /\ pc = at
    /\ luck = MaxLuck
    /\ obs = ObsInit

\* The first call of run() on a Simulation that was just constructed.
Init == Start("upkeep")

\* Cooldowns decremented by the time since the last event.
Cooldown(cd, delta_t) == Max(0, cd - delta_t)

\* Loop test, regeneration, cooldowns and the expiry of the timed buffs
\* and of the Mangle debuff.
Upkeep ==
    /\ pc = "upkeep"
    /\ time <= fight_length
    /\ LET delta_t == time - previous_time
           p1 == PlayerRegen(player, delta_t)
           p2 == [p1 EXCEPT !.gcd = Cooldown(p1.gcd, delta_t),
                            !.tf_cd = Cooldown(p1.tf_cd, delta_t),
                            !.berserk_cd = Cooldown(p1.berserk_cd, delta_t),
                            !.enrage_cd = Cooldown(p1.enrage_cd, delta_t),
                            !.mangle_cd = Cooldown(p1.mangle_cd, delta_t)]
           p3 == [p2 EXCEPT
                     !.berserk = IF p2.berserk /\ (time >= self.berserk_end)
                                 THEN FALSE ELSE p2.berserk,
                     !.savage_roar =
                         IF p2.savage_roar /\ (time >= self.roar_end)
                         THEN FALSE ELSE p2.savage_roar]
       IN /\ player' = p3
          /\ self' = [self EXCEPT
                 !.tigers_fury =
                     IF self.tigers_fury /\ (time >= self.tf_end)
                     THEN FALSE ELSE self.tigers_fury,
                 !.mangle_debuff =
                     IF self.mangle_debuff /\ (time >= self.mangle_end)
                     THEN FALSE ELSE self.mangle_debuff]
    /\ combat_log' =
           LogAppend(combat_log, log,
               (IF self.tigers_fury /\ ~self'.tigers_fury THEN 1 ELSE 0)
               + (IF player.berserk /\ ~player'.berserk THEN 1 ELSE 0)
               + (IF self.mangle_debuff /\ ~self'.mangle_debuff THEN 1 ELSE 0)
               + (IF player.savage_roar /\ ~player'.savage_roar
                  THEN 1 ELSE 0))
    /\ pc' = "bleeds"
    /\ obs' = ObsReset(obs)
    /\ dmg_done' = 0
    /\ UNCHANGED <<cfg, pool, error, time, previous_time, times, num_hot_ticks, damage,
                   dmg_breakdown, trinket_vars, aura_hist, luck, series, log,
                   runs>>

\* The loop test fails: the run is over.
Finished ==
    /\ pc = "upkeep"
    /\ time > fight_length
    /\ LET u == TrinketsFinal(trinkets, params, damage_params, self, player)
       IN /\ trinkets' = u.trinkets
          /\ params' = u.params
          /\ damage_params' = u.damage_params
          /\ aura_hist' =
                 IF u.applied
                 THEN [aura_hist EXCEPT
                          !.sunder_at = Append(@, fight_length),
                          !.sunder_steps = Append(@, times.len)]
                 ELSE aura_hist
          /\ combat_log' =
                 LogAppend(combat_log, log, IF u.applied THEN 1 ELSE 0)
    /\ pc' = "done"
    /\ UNCHANGED <<cfg, pool, error, self, player, time, previous_time, times,
                   num_hot_ticks, dmg_done, damage, dmg_breakdown, luck, obs,
                   series, log, runs>>

\* A faulty tick that applies the Savage Roar bonus without crediting it.
apply_bleed_damageRoarUncredited(s, base_tick_damage, sr_snapshot) ==
    LET tick_damage == (base_tick_damage * (IF s.mangle_debuff THEN 13 ELSE 10))
                       \div 10
    IN [bleed |-> tick_damage,
        roar |-> 0,
        tick_damage |-> IF sr_snapshot THEN (tick_damage * 13) \div 10
                        ELSE tick_damage]

\* Simulation.apply_bleed_damage: the amount credited to the bleed, the
\* amount credited to Savage Roar, and the tick_damage it returns.
apply_bleed_damage(s, base_tick_damage, sr_snapshot) ==
    LET tick_damage == (base_tick_damage * (IF s.mangle_debuff THEN 13 ELSE 10))
                       \div 10
    IN [bleed |-> tick_damage,
        roar |-> IF sr_snapshot THEN (3 * tick_damage) \div 10 ELSE 0,
        tick_damage |-> IF sr_snapshot THEN (tick_damage * 13) \div 10
                        ELSE tick_damage]

\* A faulty tick that reads Savage Roar as it is when the tick is delivered.
RipTickSnapshotLive(s, p) == p.savage_roar

\* The sr_snapshot argument run() passes for a tick of Rip, Rake, Lacerate.
RipTickSnapshot(s, p) == s.rip_sr_snapshot
RakeTickSnapshot(s, p) == s.rake_sr_snapshot
LacerateTickSnapshot(s, p) == FALSE

\* "Check if a ... tick happens at this time"
RipTickDue(s, t) == s.rip_debuff /\ (t >= s.rip_ticks[1])
RakeTickDue(s, t) == s.rake_debuff /\ (t >= s.rake_ticks[1])
LacerateTickDue(s, t) ==
    s.lacerate_debuff /\ (s.lacerate_ticks # << >>) /\ (t >= s.lacerate_ticks[1])

RipTick(s, t) ==
    IF RipTickDue(s, t) THEN [s EXCEPT !.rip_ticks = Pop0(s.rip_ticks)] ELSE s
RakeTick(s, t) ==
    IF RakeTickDue(s, t) THEN [s EXCEPT !.rake_ticks = Pop0(s.rake_ticks)] ELSE s
LacerateTick(s, t) ==
    IF LacerateTickDue(s, t)
    THEN [s EXCEPT !.last_lacerate_tick = t,
                   !.lacerate_ticks = Pop0(s.lacerate_ticks)]
    ELSE s

\* "Check if ... fell off"
RipExpire(s, t) ==
    IF s.rip_debuff /\ (t > s.rip_end - Eps)
    THEN [s EXCEPT !.rip_debuff = FALSE] ELSE s
RakeExpire(s, t) ==
    IF s.rake_debuff /\ (t > s.rake_end - Eps)
    THEN [s EXCEPT !.rake_debuff = FALSE] ELSE s
LacerateExpire(s, t) ==
    IF s.lacerate_debuff /\ (t > s.lacerate_end - Eps)
    THEN [s EXCEPT !.lacerate_debuff = FALSE] ELSE s

\* A faulty order for Rip: the expiry check before the due tick.
RipUpdateExpiryFirst(s, t) == RipTick(RipExpire(s, t), t)

\* One bleed in one step: its due tick first, then its expiry check.
RipUpdate(s, t) == RipExpire(RipTick(s, t), t)
RakeUpdate(s, t) == RakeExpire(RakeTick(s, t), t)
LacerateUpdate(s, t) == LacerateExpire(LacerateTick(s, t), t)

\* Reading the first entry of an empty tick list raises IndexError.
BleedsRaise(s) ==
    \/ s.rip_debuff /\ (s.rip_ticks = << >>)
    \/ s.rake_debuff /\ (s.rake_ticks = << >>)

\* No tick of a bleed in this step.
NoTick == [bleed |-> 0, roar |-> 0, tick_damage |-> 0]

TickRecord(aura, at, snapshot, dmg) ==
    [aura |-> aura, at |-> at, sr |-> snapshot, damage |-> dmg]

\* The ticks and expiries of the three bleeds.
Bleeds ==
    /\ pc = "bleeds"
    /\ ~BleedsRaise(self)
    /\ LET s1 == RipUpdate(self, time)
           s2 == RakeUpdate(s1, time)
           s3 == LacerateUpdate(s2, time)
           rip_t == s1.rip_ticks # self.rip_ticks
           rake_t == s2.rake_ticks # s1.rake_ticks
           lac_t == s3.lacerate_ticks # s2.lacerate_ticks
           rip_d == IF rip_t
                    THEN apply_bleed_damage(self, self.rip_damage,
                             RipTickSnapshot(self, player))
                    ELSE NoTick
           rake_d == IF rake_t
                     THEN apply_bleed_damage(self, self.rake_damage,
                              RakeTickSnapshot(self, player))
                     ELSE NoTick
           lac_d == IF lac_t
                    THEN apply_bleed_damage(self, self.lacerate_damage,
                             LacerateTickSnapshot(self, player))
                    ELSE NoTick
           ticked ==
               (IF rip_t
                THEN {TickRecord("Rip", self.rip_ticks[1],
                          RipTickSnapshot(self, player), rip_d)}
                ELSE {})
               \cup
               (IF rake_t
                THEN {TickRecord("Rake", self.rake_ticks[1],
                          RakeTickSnapshot(self, player), rake_d)}
                ELSE {})
               \cup
               (IF lac_t
                THEN {TickRecord("Lacerate", self.lacerate_ticks[1],
                          LacerateTickSnapshot(self, player), lac_d)}
                ELSE {})
           count(a, due) == obs.delivered[a] + (IF due THEN 1 ELSE 0)
           last(a, due) == IF due THEN time ELSE obs.last_tick[a]
       IN /\ self' = s3
          /\ obs' = [obs EXCEPT
                 !.ticked = ticked,
                 !.expired =
                     (IF self.rip_debuff /\ ~s3.rip_debuff THEN {"Rip"} ELSE {})
                     \cup (IF self.rake_debuff /\ ~s3.rake_debuff
                           THEN {"Rake"} ELSE {})
                     \cup (IF self.lacerate_debuff /\ ~s3.lacerate_debuff
                           THEN {"Lacerate"} ELSE {}),
                 !.delivered = [Rip |-> count("Rip", rip_t),
                                Rake |-> count("Rake", rake_t),
                                Lacerate |-> count("Lacerate", lac_t)],
                 !.last_tick = [Rip |-> last("Rip", rip_t),
                                Rake |-> last("Rake", rake_t),
                                Lacerate |-> last("Lacerate", lac_t)]]
          /\ dmg_done' = dmg_done + rip_d.tick_damage + rake_d.tick_damage
                                   + lac_d.tick_damage
          /\ dmg_breakdown' =
                 [dmg_breakdown EXCEPT
                     !["Rip"] = @ + rip_d.bleed,
                     !["Rake"] = @ + rake_d.bleed,
                     !["Lacerate"] = @ + lac_d.bleed,
                     !["Savage Roar"] = @ + rip_d.roar + rake_d.roar
                                          + lac_d.roar]
    /\ combat_log' =
           LogAppend(combat_log, log,
                     Cardinality(obs'.ticked) + Cardinality(obs'.expired))
    /\ pc' = "swing"
    /\ UNCHANGED <<cfg, pool, error, player, time, previous_time, times, num_hot_ticks,
                   damage, trinket_vars, aura_hist, luck, series, log, runs>>

\* An IndexError ends the run.
Raise ==
    /\ \/ pc = "bleeds" /\ BleedsRaise(self)
       \/ pc = "finish" /\ (self.swing_times = << >>)
    /\ pc' = "raised"
    /\ UNCHANGED <<cfg, pool, error, self, player, time, previous_time, times,
                   num_hot_ticks, dmg_done, damage, dmg_breakdown,
                   trinket_vars, aura_hist, luck, obs, series, log,
                   combat_log, runs>>

\* "Use Enrage if appropriate"
Enrage(p, t) ==
    IF (~p.cat_form) /\ (p.enrage_cd < Eps) /\ (t < p.last_shift + Ds(15) + Eps)
    THEN [p EXCEPT !.rage = Min(100, p.rage + 20), !.enrage = TRUE,
                   !.enrage_cd = Sec(60)]
    ELSE p

\* The lookahead of a bear swing to the next global cooldown: whether a
\* shift back to Cat Form is expected on it.
swing_shift_next(s, p, t) ==
    LET energy_leeway == En(furor_cap) - En(15) - RegenOver(p.gcd + latency)
        shift_next_0 == p.energy > energy_leeway
    IN IF rip_refresh_pending(s)
       THEN shift_next_0 \/ (s.rip_end < t + p.gcd + Sec(3))
       ELSE shift_next_0

\* Whether Lacerate is expected on the next global cooldown.
swing_lacerate_next(s, p, t) ==
    LET lacerate_leeway == p.gcd + strategy.lacerate_time
    IN IF strategy.lacerate_prio
       THEN \/ ~s.lacerate_debuff
            \/ s.lacerate_stacks < 5
            \/ s.lacerate_end - t <= lacerate_leeway
       ELSE s.lacerate_debuff
            /\ \/ s.lacerate_stacks < 5
               \/ s.lacerate_end < t + p.gcd + Ds(45)

\* Whether an emergency Lacerate is needed on the next global cooldown.
swing_emergency_lacerate_next(s, p, t) ==
    LET emergency_leeway == p.gcd + Sec(3) + 2 * latency
    IN IF strategy.lacerate_prio
       THEN s.lacerate_debuff /\ (s.lacerate_end - t <= emergency_leeway)
       ELSE FALSE

\* Whether Mangle is expected on the next global cooldown.
swing_mangle_next(s, p, t) ==
    IF strategy.lacerate_prio
    THEN (~swing_lacerate_next(s, p, t))
         /\ \/ ~s.mangle_debuff
            \/ s.mangle_end < t + p.gcd + Sec(3)
    ELSE p.mangle_cd < p.gcd

\* A faulty threshold that looks at the shift back to Cat Form before the
\* emergency Lacerate.
maul_rage_threshShiftFirst(s, p, t) ==
    IF swing_shift_next(s, p, t) THEN 10
    ELSE IF swing_emergency_lacerate_next(s, p, t) THEN 23
    ELSE IF swing_mangle_next(s, p, t) THEN 25
    ELSE IF swing_lacerate_next(s, p, t) THEN 23
    ELSE 10

\* The Rage threshold above which a bear swing becomes a Maul.
maul_rage_thresh(s, p, t) ==
    IF swing_emergency_lacerate_next(s, p, t) THEN 23
    ELSE IF swing_shift_next(s, p, t) THEN 10
    ELSE IF swing_mangle_next(s, p, t) THEN 25
    ELSE IF swing_lacerate_next(s, p, t) THEN 23
    ELSE 10

\* Whether the swing that is due is a Maul.
UseMaul(s, p, t) == (~p.cat_form) /\ (p.rage >= maul_rage_thresh(s, p, t))

\* "Check if a melee swing happens at this time"
SwingDue(s, t) == t = s.swing_times[1]

\* "Roll for Revitalize procs at the pre-calculated frequency"
RevitalizeDue(n, t) == t >= setup.revitalize_frequency * (n + 1)

\* A faulty Revitalize that adds its gain without the cap of 100.
RevitalizeUnclamped(p) ==
    IF p.cat_form THEN [p EXCEPT !.energy = p.energy + En(8)]
    ELSE [p EXCEPT !.rage = p.rage + 4]

Revitalize(p) ==
    IF p.cat_form THEN [p EXCEPT !.energy = Min(En(100), p.energy + En(8))]
    ELSE [p EXCEPT !.rage = Min(100, p.rage + 4)]

\* The Revitalize roll, Enrage and the melee swing.
Swing ==
    /\ pc = "swing"
    /\ \E revitalize, proc \in BOOLEAN :
         /\ revitalize => RevitalizeDue(num_hot_ticks, time)
         /\ proc => /\ setup.omen
                    /\ SwingDue(self, time)
                    /\ ~player.omen_proc
         /\ IF runs.replay
            THEN /\ revitalize = (/\ RevitalizeDue(num_hot_ticks, time)
                                  /\ Taped("revitalize"))
                 /\ proc = (/\ setup.omen
                            /\ SwingDue(self, time)
                            /\ ~player.omen_proc
                            /\ Taped("proc"))
            ELSE luck >= (IF revitalize THEN 1 ELSE 0)
                         + (IF proc THEN 1 ELSE 0)
         /\ runs' = IF runs.replay THEN runs
                    ELSE [runs EXCEPT
                             !.tape = @ \cup
                                 (IF revitalize THEN {Draw("revitalize")}
                                  ELSE {})
                                 \cup (IF proc THEN {Draw("proc")} ELSE {})]
         /\ LET p0 == IF revitalize THEN Revitalize(player) ELSE player
                p1 == Enrage(p0, time)
                p2 == IF ~SwingDue(self, time) THEN p1
                      ELSE IF UseMaul(self, p1, time) THEN PlayerMaul(p1, proc)
                      ELSE PlayerSwing(p1, proc)
            IN /\ player' = p2
               /\ self' =
                    IF SwingDue(self, time)
                    THEN [self EXCEPT
                             !.swing_times = Pop0(self.swing_times),
                             !.next_action = IF p2.omen_proc
                                             THEN time + latency
                                             ELSE self.next_action]
                    ELSE self
               /\ obs' = [obs EXCEPT
                      !.revitalize = revitalize,
                      !.revit_p = player,
                      !.swing = IF ~SwingDue(self, time) THEN "none"
                                ELSE IF UseMaul(self, p1, time) THEN "Maul"
                                ELSE "auto",
                      !.swing_s = self,
                      !.swing_p = p1]
               /\ LET ability == IF UseMaul(self, p1, time) THEN "Maul"
                                 ELSE "Melee"
                      dealt == IF ~SwingDue(self, time) THEN 0
                               ELSE IF UseMaul(self, p1, time)
                               THEN PlayerMaulDamage(p1)
                               ELSE PlayerSwingDamage(p1)
                  IN /\ dmg_breakdown' = Credit(dmg_breakdown, ability, dealt)
                     /\ dmg_done' = dmg_done + dealt
         /\ num_hot_ticks' = IF RevitalizeDue(num_hot_ticks, time)
                             THEN num_hot_ticks + 1 ELSE num_hot_ticks
         /\ luck' = IF runs.replay THEN luck
                    ELSE luck - (IF revitalize THEN 1 ELSE 0)
                              - (IF proc THEN 1 ELSE 0)
    /\ LET u == TrinketsUpdate(trinkets, params, damage_params, time, self,
                               player)
           since == Max(previous_time, Sec(15))
           lived(up, end) == IF up /\ (Min(time, end) > since)
                             THEN Min(time, end) - since ELSE 0
       IN /\ trinkets' = u.trinkets
          /\ params' = u.params
          /\ damage_params' = u.damage_params
          /\ aura_hist' =
                 [aura_hist EXCEPT
                     !.active_time =
                         [Rip |-> @.Rip + lived(aura_hist.up.Rip,
                                                self.rip_end),
                          Roar |-> @.Roar + lived(aura_hist.up.Roar,
                                                  self.roar_end)],
                     !.seen =
                         [Rip |-> @.Rip \/ FoundActive(trinkets.RipTracker,
                                      time, RipTrackerIsActive(self, player)),
                          Roar |-> @.Roar \/ FoundActive(trinkets.RoarTracker,
                                      time, RoarTrackerIsActive(self, player))],
                     !.sunder_at = IF u.applied THEN Append(@, time) ELSE @,
                     !.sunder_steps =
                         IF u.applied THEN Append(@, times.len) ELSE @]
    /\ combat_log' =
           LogAppend(combat_log, log,
               (IF obs'.revitalize THEN 1 ELSE 0)
               + (IF params'.sunder > params.sunder THEN 1 ELSE 0)
               + (IF obs'.swing_p # (IF obs'.revitalize
                                     THEN Revitalize(player) ELSE player)
                  THEN 1 ELSE 0)
               + (IF SwingDue(self, time) THEN 1 ELSE 0))
    /\ pc' = "act"
    /\ UNCHANGED <<cfg, pool, error, time, previous_time, times, damage, series, log>>

\* A faulty readiness test that forgets the global cooldown.
AbleToActIgnoringGcd(s, p, t) == t >= s.next_action

\* "Check if we're able to act"
AbleToAct(s, p, t) == (p.gcd < Eps) /\ (t >= s.next_action)

\* What a call of execute_rotation starts a global cooldown for.
GcdBound == {"Shred", "Mangle", "Rake", "Rip", "Bite", "Roar", "Lacerate",
             "Berserk", "Shift", "Powershift"}

\* A cast that, when it lands, starts a new instance of its bleed.
NewInstance(s, cast) ==
    (cast \in {"Rip", "Rake"}) \/ (cast = "Lacerate" /\ ~s.lacerate_debuff)

\* What execute_rotation returns to run: the damage_done of a cast that
\* deals damage at once, 0.0 on every other path.
damage_done(cast, dealt) == IF cast \in DirectDamage THEN dealt ELSE 0

\* One invocation of the decision engine, if the player is able to act.
Act ==
    /\ pc = "act"
    /\ IF AbleToAct(self, player, time)
       THEN \E outcome \in Outcomes :
              LET did == execute_rotation(self, player, time, outcome)
              IN /\ (outcome # "hit") => did.rolled
                 /\ IF runs.replay
                    THEN LET taped ==
                                 {o \in Outcomes :
                                     /\ Taped(o)
                                     /\ execute_rotation(self, player, time,
                                                         o).rolled}
                         IN IF taped # {} THEN outcome \in taped
                            ELSE outcome = "hit"
                    ELSE (outcome # "hit") => (luck > 0)
                 /\ luck' = IF (outcome # "hit") /\ ~runs.replay
                            THEN luck - 1 ELSE luck
                 /\ runs' = IF (outcome # "hit") /\ ~runs.replay
                            THEN [runs EXCEPT !.tape = @ \cup {Draw(outcome)}]
                            ELSE runs
                 /\ combat_log' =
                        LogAppend(combat_log, log,
                                  IF did.cast # "none" THEN 1 ELSE 0)
                 /\ self' = did.s
                 /\ player' = did.p
                 /\ LET dealt == IF did.cast \in DirectDamage
                                 THEN PlayerDamage(did.cast, player, outcome)
                                 ELSE 0
                    IN /\ dmg_breakdown' =
                              IF did.cast \in DirectDamage
                              THEN Credit(dmg_breakdown, did.cast, dealt)
                              ELSE dmg_breakdown
                       /\ dmg_done' = dmg_done + damage_done(did.cast, dealt)
                 /\ obs' = [obs EXCEPT
                        !.decided = TRUE,
                        !.branch = Branch(self, player, time),
                        !.cast = did.cast,
                        !.landed = did.rolled /\ Landed(outcome),
                        !.sr_at_cast =
                            IF did.cast \in {"Rip", "Rake"} /\ Landed(outcome)
                            THEN [@ EXCEPT ![did.cast] = player.savage_roar]
                            ELSE @,
                        !.delivered =
                            IF NewInstance(self, did.cast) /\ Landed(outcome)
                            THEN [@ EXCEPT ![did.cast] = 0]
                            ELSE @,
                        !.last_tick =
                            IF NewInstance(self, did.cast) /\ Landed(outcome)
                            THEN [@ EXCEPT ![did.cast] = time]
                            ELSE @,
                        !.pre = self,
                        !.pre_p = player,
                        !.prev_cast_at =
                            IF did.cast \in GcdBound THEN obs.gcd_cast_at ELSE @,
                        !.gcd_cast_at =
                            IF did.cast \in GcdBound THEN time ELSE @,
                        !.gcd_cast_len =
                            IF did.cast \in GcdBound THEN did.p.gcd ELSE @]
       ELSE UNCHANGED <<self, player, luck, obs, dmg_done, dmg_breakdown,
                        runs, combat_log>>
    /\ aura_hist' =
           LET began(was, is) == IF (~was) /\ is /\ InWindow(time) THEN 1 ELSE 0
           IN [aura_hist EXCEPT
                  !.applications =
                      [Rip |-> @.Rip + began(self.rip_debuff, self'.rip_debuff),
                       Roar |-> @.Roar + began(player.savage_roar,
                                               player'.savage_roar)],
                  !.oom =
                      IF /\ @ = None
                         /\ player'.mana < 0
                         /\ player'.mana # player.mana
                      THEN time ELSE @]
    /\ pc' = "finish"
    /\ UNCHANGED <<cfg, pool, error, time, previous_time, times, num_hot_ticks, damage,
                   trinket_vars, series, log>>

\* A faulty test that casts Tiger's Fury whatever is left of its cooldown.
tf_nowWhateverTheCooldown(p) ==
    LET leeway_time == Max(p.gcd, latency)
        tf_energy_thresh == En(40) - RegenOver(leeway_time)
                            - (IF p.omen_proc THEN En(10) ELSE 0)
    IN /\ p.energy < tf_energy_thresh
       /\ ~p.berserk
       /\ p.cat_form

\* "If our Energy just dropped low enough, then cast Tiger's Fury"
tf_now(p) ==
    LET leeway_time == Max(p.gcd, latency)
        tf_energy_thresh == En(40) - RegenOver(leeway_time)
                            - (IF p.omen_proc THEN En(10) ELSE 0)
    IN /\ p.energy < tf_energy_thresh
       /\ p.tf_cd < Eps
       /\ ~p.berserk
       /\ p.cat_form

\* A faulty update that leaves the Rake ticks out of the minimum.
NextTimeWithoutRake(s, p, t) ==
    LET next_swing == s.swing_times[1]
        next_action == Max(t + p.gcd, s.next_action)
        t0 == Min(next_action, next_swing)
        t1 == IF s.rip_debuff THEN Min(t0, s.rip_ticks[1]) ELSE t0
        t3 == IF s.lacerate_debuff /\ (s.lacerate_ticks # << >>)
              THEN Min(t1, s.lacerate_ticks[1]) ELSE t1
    IN IF s.proc_end_times # << >> THEN Min(t3, s.proc_end_times[1]) ELSE t3

\* "Update time": the time of the next step.
NextTime(s, p, t) ==
    LET next_swing == s.swing_times[1]
        next_action == Max(t + p.gcd, s.next_action)
        t0 == Min(next_action, next_swing)
        t1 == IF s.rip_debuff THEN Min(t0, s.rip_ticks[1]) ELSE t0
        t2 == IF s.rake_debuff THEN Min(t1, s.rake_ticks[1]) ELSE t1
        t3 == IF s.lacerate_debuff /\ (s.lacerate_ticks # << >>)
              THEN Min(t2, s.lacerate_ticks[1]) ELSE t2
    IN IF s.proc_end_times # << >> THEN Min(t3, s.proc_end_times[1]) ELSE t3

\* The end of the loop body: Tiger's Fury, the sample, the clock.
Finish ==
    /\ pc = "finish"
    /\ self.swing_times # << >>
    /\ LET s1 == [self EXCEPT
                     !.tigers_fury =
                         IF self.tigers_fury /\ (player.gcd = Ds(15))
                         THEN FALSE ELSE self.tigers_fury,
                     !.proc_end_times =
                         IF (self.proc_end_times # << >>)
                            /\ (time = self.proc_end_times[1])
                         THEN Pop0(self.proc_end_times)
                         ELSE self.proc_end_times]
           sp == IF tf_now(player) THEN apply_tigers_fury(s1, player, time)
                 ELSE After(s1, player)
       IN /\ self' = sp.s
          /\ player' = sp.p
          /\ times' = [len |-> times.len + 1, last |-> time]
          /\ damage' = [len |-> damage.len + 1, sum |-> damage.sum + dmg_done]
          /\ series' = [times |-> Digest(series.times, time),
                        damage |-> Digest(series.damage, dmg_done),
                        energy |-> Digest(series.energy, sp.p.energy),
                        combos |-> Digest(series.combos, sp.p.combo_points)]
          /\ LET u == TrinketsUpdate(trinkets, params, damage_params, time,
                                     s1, player)
             IN /\ trinkets' = u.trinkets
                /\ params' = u.params
                /\ damage_params' = u.damage_params
                /\ combat_log' =
                       LogAppend(combat_log, log,
                           (IF self.tigers_fury /\ ~s1.tigers_fury
                            THEN 1 ELSE 0)
                           + (IF u.applied THEN 1 ELSE 0)
                           + (IF tf_now(player) THEN 1 ELSE 0))
                /\ aura_hist' =
                       [aura_hist EXCEPT
                           !.up = [Rip |-> sp.s.rip_debuff,
                                   Roar |-> sp.p.savage_roar],
                           !.seen =
                               [Rip |-> @.Rip \/
                                    FoundActive(trinkets.RipTracker, time,
                                        RipTrackerIsActive(s1, player)),
                                Roar |-> @.Roar \/
                                    FoundActive(trinkets.RoarTracker, time,
                                        RoarTrackerIsActive(s1, player))],
                           !.tf_at =
                               IF tf_now(player) THEN Append(@, time) ELSE @,
                           !.sunder_at =
                               IF u.applied THEN Append(@, time) ELSE @,
                           !.sunder_steps =
                               IF u.applied THEN Append(@, times.len) ELSE @]
          /\ previous_time' = time
          /\ time' = NextTime(sp.s, sp.p, time)
          /\ obs' = [obs EXCEPT !.cast = IF tf_now(player) THEN "Tiger's Fury"
                                         ELSE obs.cast]
    /\ pc' = "upkeep"
    /\ UNCHANGED <<cfg, pool, error, num_hot_ticks, dmg_done, dmg_breakdown, luck, log,
                   runs>>

\* "if self.time_to_oom is None: oom_time = randomized_fight_length"
oom_time(recorded, randomized_fight_length) ==
    IF recorded = None THEN randomized_fight_length ELSE recorded

\* iterate, after self.run() has returned: the run was made with the
\* randomized fight length.
IterateReturn ==
    /\ pc = "done"
    /\ runs.count = 1
    /\ runs' = [runs EXCEPT
                   !.oom_time = oom_time(self.time_to_oom, fight_length)]
    /\ pc' = "returned"
    /\ UNCHANGED <<cfg, pool, error, self, player, time, previous_time,
                   times, num_hot_ticks, dmg_done, damage, dmg_breakdown,
                   luck, obs, series, log, combat_log, trinket_vars,
                   aura_hist>>

Next ==
    \/ Upkeep
    \/ Bleeds
    \/ Swing
    \/ Act
    \/ Finish
    \/ Finished
    \/ Raise
    \/ IterateReturn

Spec == Init /\ [][Next]_vars

\* What every further call of run() starts from, whichever object it is
\* made on: the locals of run and the histories of the properties.
RunLocals ==
    /\ time' = 0
    /\ previous_time' = 0
    /\ times' = [len |-> 0, last |-> 0]
    /\ num_hot_ticks' = 0
    /\ dmg_done' = 0
    /\ damage' = [len |-> 0, sum |-> 0]
    /\ series' = SeriesInit
    /\ dmg_breakdown' = [a \in Abilities |-> 0]
    /\ aura_hist' = AuraHistInit
    /\ obs' = ObsInit
    /\ pc' = "upkeep"
    /\ UNCHANGED <<cfg, pool, error, luck>>

\* run() is called again on the same Simulation, with the same argument
\* and the same random draws: the prologue resets what it assigns and
\* leaves every other attribute as the last run left it.
RunAgain ==
    /\ pc = "done"
    /\ runs.count < MaxRuns
    /\ ~runs.fresh
    /\ LET sp == Prologue(self)
       IN self' = sp.s /\ player' = sp.p
    /\ log' = log
    /\ combat_log' = ConfigureLog(combat_log, log')
    /\ params' = ArmorDebuffsReset(params)
    /\ damage_params' = damage_params
    /\ trinkets' = [trinkets EXCEPT !.RipTracker = TrackerReset,
                                    !.RoarTracker = TrackerReset]
    /\ runs' = [runs EXCEPT !.count = @ + 1, !.replay = TRUE,
                            !.first = IF runs.count = 1 THEN Output ELSE @,
                            !.first_sunder_at =
                                IF runs.count = 1 THEN aura_hist.sunder_at
                                ELSE @,
                            !.stacks_before = params.sunder]
    /\ RunLocals

\* The same fight on a Simulation constructed with the same arguments,
\* run with the other value of log and the same random draws.
RunTwin ==
    /\ pc = "done"
    /\ runs.count = 1
    /\ LET sp == Prologue(SimReset)
       IN self' = sp.s /\ player' = sp.p
    /\ log' = ~log
    /\ combat_log' = ConfigureLog(0 - 1, log')
    /\ LET c == process_params([sunder |-> IF setup.sunder THEN 1 ELSE 0])
       IN /\ params' = c.params
          /\ damage_params' = c.params
          /\ trinkets' = [debuff_controller |-> c.debuff_controller,
                          RipTracker |-> TrackerReset,
                          RoarTracker |-> TrackerReset]
    /\ runs' = [runs EXCEPT !.count = @ + 1, !.replay = TRUE,
                            !.fresh = TRUE, !.first = Output,
                            !.first_sunder_at = aura_hist.sunder_at,
                            !.stacks_before = 0]
    /\ RunLocals

NextRerun ==
    \/ Next
    \/ RunAgain
    \/ RunTwin

\* Several calls of run(), each with the random draws of the first.
RerunSpec == Init /\ [][NextRerun]_vars

\* ------------------------------------------------------- run_replicates
\* The replicates of a batch, the worker processes of the pool, and the
\* calls of iterate made directly.
MaxReplicates == 3
Workers == 2

\* Rational numbers, for the running averages.
Q(n) == Frac(n, 1)
QAdd(a, b) == Frac(a.num * b.den + b.num * a.den, a.den * b.den)
QScale(a, n) == Frac(a.num * n, a.den)
QDiv(a, n) == Frac(a.num, a.den * n)

\* What of a Simulation object matters to a replicate: its fight_length
\* and whatever the last run on it left behind (the player, the auras,
\* time_to_oom), named by the replicate that made that run (0: none).
SimObject(fl) == [fight_length |-> fl, ran |-> 0]

\* The state of numpy's random source in the parent process, which every
\* worker process starts with.
InheritedRng == 0

\* A faulty iterate that goes on with the state the random source has.
ReseedKeepingState(rng, entropy) == rng

\* np.random.seed(): a new state from the entropy of the system
Reseed(rng, entropy) == entropy

\* np.random.randn(), as a function of the state of the random source
Jitter(rng) == ((rng % 3) - 1) * Ds(5)

\* self.run() and the statistics iterate derives from it, as a function of
\* the state of the random source: the numbers stand for its output.
ReplicateOutput(rng) ==
    [avg_dps |-> 50 + rng,
     dmg_breakdown |->
         [a \in {"Shred", "Rip"} |->
             [casts |-> IF a = "Shred" THEN 3 + (rng % 3) ELSE rng % 2,
              damage |-> IF a = "Shred" THEN 100 * (rng % 4) ELSE 40 + rng]],
     aura_stats |-> << <<"Rip", rng % 2, Frac(rng % 3, 4)>>,
                       <<"Savage Roar", 1 + (rng % 2), Frac(1, 1 + rng)>> >>]

\* A faulty iterate that leaves the randomized fight length in place.
iterateKeepingFightLength(object, rng, id) ==
    LET randomized == [object EXCEPT !.fight_length = @ + Jitter(rng)]
        after_run == [randomized EXCEPT !.ran = id]
    IN [object |-> after_run, output |-> ReplicateOutput(rng)]

\* Simulation.iterate after the reseeding, on the object it is called on.
iterate(object, rng, id) ==
    LET base_fight_length == object.fight_length
        randomized == [object EXCEPT !.fight_length = @ + Jitter(rng)]
        after_run == [randomized EXCEPT !.ran = id]
    IN [object |-> [after_run EXCEPT !.fight_length = base_fight_length],
        output |-> ReplicateOutput(rng)]

\* A faulty dispatch that hands a task the object its worker used last.
TaskCopyOfWorkerObject(parent, worker) ==
    IF worker.object.ran # 0 THEN worker.object ELSE parent

\* The bound method self.iterate is pickled with every task: the worker
\* runs the task on a copy of the parent's object.
TaskCopy(parent, worker) == parent

\* A faulty loop that takes the outputs as they are completed.
NextOutputAsCompleted(pl) ==
    LET ready == {k \in 1..pl.n : pl.task[k].state = "done"} \ pl.folded
    IN IF ready = {} THEN pl.i + 1
       ELSE CHOOSE k \in ready : \A j \in ready : j <= k

\* pool.imap yields the outputs in the order of submission.
NextOutput(pl) == pl.i + 1

\* "(cast_sum[ability][key] * i + val) / (i + 1)"
RunningAverage(avg, i, val) == QDiv(QAdd(QScale(avg, i), val), i + 1)

\* What the calls of run_replicates and iterate leave alone.
pool_frame ==
    <<cfg, error, self, player, time, previous_time, times, num_hot_ticks,
      dmg_done, damage, dmg_breakdown, params, damage_params, trinkets,
      aura_hist, series, log, combat_log, runs, pc, luck, obs>>

\* A call of iterate on the Simulation itself, outside a batch.
Iterate ==
    /\ pc = "replicates"
    /\ pool.phase = "idle"
    /\ Len(pool.calls) < MaxReplicates
    /\ \E arg \in 0..1 :
         LET rng == Reseed(InheritedRng, pool.entropy)
             object == SimObject(fight_length)
             did == iterate(object, rng, 0 - 1)
         IN pool' = [pool EXCEPT
                        !.entropy = @ + 1,
                        !.calls = Append(@, [arg |-> arg,
                                             before |-> object,
                                             after |-> did.object,
                                             output |-> did.output])]
    /\ UNCHANGED pool_frame

\* run_replicates(num_replicates, detailed_output) up to the loop.
RunReplicates ==
    /\ pc = "replicates"
    /\ pool.phase = "idle"
    /\ \E n \in 1..MaxReplicates, detailed_output \in BOOLEAN :
         pool' =
            [phase |-> "running", n |-> n, detailed |-> detailed_output,
             entropy |-> pool.entropy, calls |-> pool.calls,
             parent |-> SimObject(fight_length),
             worker |-> [w \in 1..Workers |->
                            [rng |-> InheritedRng, task |-> 0,
                             object |-> SimObject(fight_length)]],
             task |-> [k \in 1..n |->
                          [state |-> "queued", arg |-> k - 1, rng |-> 0,
                           began_from |-> SimObject(fight_length),
                           object |-> SimObject(fight_length),
                           output |-> ReplicateOutput(0)]],
             submitted |-> 0, completed |-> << >>, i |-> 0, folded |-> {},
             dps_vals |-> [k \in 1..n |-> 0],
             cast_sum |-> [a \in {"Shred", "Rip"} |->
                              [casts |-> Q(0), damage |-> Q(0)]],
             aura_sum |-> << <<"Rip", Q(0), Q(0)>>,
                             <<"Savage Roar", Q(0), Q(0)>> >>]
    /\ UNCHANGED pool_frame

\* A free worker takes the next task and reseeds the random source.
WorkerStart ==
    /\ pc = "replicates"
    /\ pool.phase = "running"
    /\ pool.submitted < pool.n
    /\ \E w \in 1..Workers :
         /\ pool.worker[w].task = 0
         /\ LET k == pool.submitted + 1
                rng == Reseed(pool.worker[w].rng, pool.entropy)
                copy == TaskCopy(pool.parent, pool.worker[w])
            IN pool' = [pool EXCEPT
                           !.submitted = k,
                           !.entropy = @ + 1,
                           !.worker[w] = [rng |-> rng, task |-> k,
                                          object |-> copy],
                           !.task[k] = [@ EXCEPT !.state = "running",
                                                 !.rng = rng,
                                                 !.began_from = copy,
                                                 !.object = copy]]
    /\ UNCHANGED pool_frame

\* A worker completes its task: iterate returns.
WorkerFinish ==
    /\ pc = "replicates"
    /\ pool.phase = "running"
    /\ \E w \in 1..Workers :
         /\ pool.worker[w].task # 0
         /\ LET k == pool.worker[w].task
                did == iterate(pool.task[k].object, pool.task[k].rng, k)
            IN pool' = [pool EXCEPT
                           !.completed = Append(@, k),
                           !.worker[w] = [@ EXCEPT !.task = 0,
                                                   !.object = did.object],
                           !.task[k] = [@ EXCEPT !.state = "done",
                                                 !.object = did.object,
                                                 !.output = did.output]]
    /\ UNCHANGED pool_frame

\* One pass of the loop over the outputs, in the parent process.
Fold ==
    /\ pc = "replicates"
    /\ pool.phase = "running"
    /\ pool.i < pool.n
    /\ LET k == NextOutput(pool)
           i == pool.i
       IN /\ k \in 1..pool.n
          /\ k \notin pool.folded
          /\ pool.task[k].state = "done"
          /\ LET output == pool.task[k].output
                 avg(old, val) == IF i = 0 THEN val
                                  ELSE RunningAverage(old, i, val)
             IN pool' =
                   [pool EXCEPT
                       !.i = i + 1,
                       !.folded = @ \cup {k},
                       !.phase = IF i + 1 = pool.n THEN "returned" ELSE @,
                       !.dps_vals[i + 1] = output.avg_dps,
                       !.cast_sum =
                           IF ~pool.detailed THEN @
                           ELSE [a \in DOMAIN @ |->
                                    [casts |->
                                         avg(@[a].casts,
                                             Q(output.dmg_breakdown[a].casts)),
                                     damage |->
                                         avg(@[a].damage,
                                             Q(output.dmg_breakdown[a].damage))]],
                       !.aura_sum =
                           IF ~pool.detailed THEN @
                           ELSE [row \in DOMAIN @ |->
                                    <<@[row][1],
                                      avg(@[row][2],
                                          Q(output.aura_stats[row][2])),
                                      avg(@[row][3],
                                          output.aura_stats[row][3])>>]]
    /\ UNCHANGED pool_frame

ReplicateNext ==
    \/ Iterate
    \/ RunReplicates
    \/ WorkerStart
    \/ WorkerFinish
    \/ Fold

\* Calls of iterate, then one batch of run_replicates.
ReplicateSpec == Start("replicates") /\ [][ReplicateNext]_vars

\* ---------------------------------------------------------- construction
\* Simulation.default_params. True and False are written 1 and 0, which is
\* what they are equal to: 'sunder' holds a flag at first and a number of
\* stacks later.
default_params ==
    [ gift_of_arthas |-> 1, boss_armor |-> 3731, sunder |-> 0,
      faerie_fire |-> 1, blood_frenzy |-> 0, shattering_throw |-> 0 ]

\* The keyword arguments tried: at most MaxKwargs of them, in the order
\* they are given in, no key twice.
MaxKwargs == 2
KwargKeys ==
    {"sunder", "boss_armor", "blood_frenzy", "use_rake", "bite_time",
     "rip_time", "armor"}
KwargValues(key) ==
    CASE key = "boss_armor" -> {0, 3731}
      [] key = "use_rake" -> BOOLEAN
      [] key = "bite_time" -> {Sec(4)}
      [] OTHER -> {0, 1}
Kwargs ==
    UNION {{kw \in [1..n -> UNION {{<<key, value>> :
                                       value \in KwargValues(key)} :
                                    key \in KwargKeys}] :
               \A i, j \in 1..n : (i # j) => (kw[i][1] # kw[j][1])} :
           n \in 0..MaxKwargs}

\* A faulty loop that skips the keys it does not know.
ApplyKwargsSkippingUnknown(kw, pa, st) ==
    LET known == {i \in 1..Len(kw) : kw[i][1] \in DOMAIN pa \cup DOMAIN st}
        given(key) == kw[CHOOSE i \in known : kw[i][1] = key][2]
        has(key) == \E i \in known : kw[i][1] = key
    IN [error |-> NoError,
        params |-> [key \in DOMAIN pa |->
                       IF has(key) THEN given(key) ELSE pa[key]],
        strategy |-> [key \in DOMAIN st |->
                         IF has(key) THEN given(key) ELSE st[key]]]

\* "for key, value in kwargs.items()": the loop of __init__
RECURSIVE ApplyKwargs(_, _, _)
ApplyKwargs(kw, pa, st) ==
    IF Len(kw) = 0
    THEN [error |-> NoError, params |-> pa, strategy |-> st]
    ELSE LET key == kw[1][1]
             value == kw[1][2]
             rest == [i \in 1..(Len(kw) - 1) |-> kw[i + 1]]
         IN IF key \in DOMAIN pa
            THEN ApplyKwargs(rest, [pa EXCEPT ![key] = value], st)
            ELSE IF key \in DOMAIN st
            THEN ApplyKwargs(rest, pa, [st EXCEPT ![key] = value])
            ELSE [error |-> [type |-> "KeyError", key |-> key,
                             params_keys |-> DOMAIN pa,
                             strategy_keys |-> DOMAIN st],
                  params |-> pa, strategy |-> st]

\* Simulation.__init__, as far as params, strategy and the controller go.
SimulationInit(kwargs) ==
    LET r == ApplyKwargs(kwargs, default_params, default_strategy)
        c == process_params(r.params)
    IN IF r.error.type # "none"
       THEN [error |-> r.error, params |-> r.params,
             strategy |-> r.strategy,
             debuff_controller |-> [use_sunder |-> FALSE]]
       ELSE [error |-> NoError, params |-> c.params,
             strategy |-> r.strategy,
             debuff_controller |-> c.debuff_controller]

\* The debuff lists tried with set_active_debuffs.
DebuffNames == {"sunder", "faerie_fire", "boss_armor", "curse_of_elements"}
DebuffLists ==
    UNION {[1..n -> DebuffNames] : n \in 0..MaxKwargs}

\* list.remove(x): without the first occurrence of x
Remove(q, x) ==
    LET at == CHOOSE i \in 1..Len(q) :
                  (q[i] = x) /\ (\A j \in 1..(i - 1) : q[j] # x)
    IN [i \in 1..(Len(q) - 1) |-> IF i < at THEN q[i] ELSE q[i + 1]]

RECURSIVE Unmatched(_, _)
Unmatched(active_debuffs, keys) ==
    IF keys = {} THEN active_debuffs
    ELSE LET key == CHOOSE k \in keys : TRUE
         IN Unmatched(IF \E i \in 1..Len(active_debuffs) :
                            active_debuffs[i] = key
                      THEN Remove(active_debuffs, key)
                      ELSE active_debuffs,
                      keys \ {key})

\* Simulation.set_active_debuffs
set_active_debuffs(pa, ctl, debuff_list) ==
    LET all_debuffs == DOMAIN pa \ {"boss_armor"}
        listed(key) == \E i \in 1..Len(debuff_list) : debuff_list[i] = key
        pa1 == [key \in DOMAIN pa |->
                   IF key \notin all_debuffs THEN pa[key]
                   ELSE IF listed(key) THEN 1 ELSE 0]
        active_debuffs == Unmatched(debuff_list, all_debuffs)
        c == process_params(pa1)
    IN IF Len(active_debuffs) # 0
       THEN [error |-> [type |-> "ValueError",
                        unsupported |-> active_debuffs,
                        supported |-> DOMAIN pa],
             params |-> pa1, debuff_controller |-> ctl,
             debuff_list |-> debuff_list]
       ELSE [error |-> NoError, params |-> c.params,
             debuff_controller |-> c.debuff_controller,
             debuff_list |-> debuff_list]

\* What a construction and a call of set_active_debuffs leave alone.
construct_frame ==
    <<pool, self, player, time, previous_time, times, num_hot_ticks,
      dmg_done, damage, dmg_breakdown, aura_hist, series, log, combat_log,
      runs, luck>>

\* Simulation(player, fight_length, latency, **kwargs)
Construct ==
    /\ pc = "construct"
    /\ \E kwargs \in Kwargs :
         LET r == SimulationInit(kwargs)
         IN /\ obs' = [kwargs |-> kwargs, debuff_list |-> << >>, calls |-> 0,
                        given |-> << >>, params |-> r.params,
                        debuff_controller |-> r.debuff_controller]
            /\ error' = r.error
            /\ IF r.error.type # "none"
               THEN /\ pc' = "raised"
                    /\ UNCHANGED <<cfg, params, damage_params, trinkets>>
               ELSE /\ pc' = "constructed"
                    /\ cfg' = [cfg EXCEPT !.strategy = r.strategy]
                    /\ params' = r.params
                    /\ damage_params' = r.params
                    /\ trinkets' =
                           [trinkets EXCEPT
                               !.debuff_controller = r.debuff_controller]
    /\ UNCHANGED construct_frame

\* sim.set_active_debuffs(debuff_list)
SetActiveDebuffs ==
    /\ pc = "constructed"
    /\ \E debuff_list \in DebuffLists :
         LET r == set_active_debuffs(params, trinkets.debuff_controller,
                                     debuff_list)
         IN /\ obs' = [obs EXCEPT !.debuff_list = r.debuff_list,
                                  !.calls = 1,
                                  !.given = debuff_list,
                                  !.params = params,
                                  !.debuff_controller =
                                      trinkets.debuff_controller]
            /\ error' = r.error
            /\ pc' = IF r.error.type # "none" THEN "raised"
                     ELSE "constructed"
            /\ params' = r.params
            /\ trinkets' = [trinkets EXCEPT
                               !.debuff_controller = r.debuff_controller]
    /\ UNCHANGED <<cfg, damage_params>>
    /\ UNCHANGED construct_frame

ConstructNext ==
    \/ Construct
    \/ SetActiveDebuffs

\* A construction, then calls of set_active_debuffs.
ConstructSpec == Start("construct") /\ [][ConstructNext]_vars

\* ------------------------------------------------------- stat weights
\* Python's float: an IEEE 754 double, kept as a sign, the 53 bits of the
\* significand (lowest first; none for zero) and the exponent of the
\* lowest bit. Sums are rounded to nearest, ties to even.
SignificandBits == 53
FloatZero == [neg |-> FALSE, m |-> << >>, e |-> 0]
LimbBits(n, w) == [i \in 1..w |-> (n \div (2 ^ (i - 1))) % 2]
Double(neg, hi, mid, lo, e) ==
    [neg |-> neg,
     m |-> LimbBits(lo, 18) \o LimbBits(mid, 18) \o LimbBits(hi, 17),
     e |-> e]
Zeros(n) == [i \in 1..n |-> 0]
Trim(bits) ==
    LET ones == {i \in 1..Len(bits) : bits[i] = 1}
    IN IF ones = {} THEN << >>
       ELSE SubSeq(bits, 1, CHOOSE i \in ones : \A j \in ones : j <= i)

Bit(a, i) == IF i <= Len(a) THEN a[i] ELSE 0

\* The carries of a sum (the borrows of a difference): each bit either
\* makes one (g) or passes on (p) the one that reaches it. Spans of 1, 2,
\* 4, ... bits are combined, so that at the end g at a bit tells whether
\* a carry leaves it.
CarryStep(gp, d) ==
    LET step == [i \in 1..Len(gp) |->
                    IF i > d
                    THEN [g |-> gp[i].g \/ (gp[i].p /\ gp[i - d].g),
                          p |-> gp[i].p /\ gp[i - d].p]
                    ELSE gp[i]]
    IN SubSeq(step, 1, Len(gp))
Carries(gp) ==
    CarryStep(CarryStep(CarryStep(CarryStep(CarryStep(CarryStep(CarryStep(
        gp, 1), 2), 4), 8), 16), 32), 64)

\* The one element of a set of one: what is computed for the element is
\* computed once.
Once(S) == CHOOSE x \in S : TRUE

\* a + b + carry
AddBits(a, b, carry) ==
    Once({ Once({ IF sum[n] = 1 THEN sum ELSE SubSeq(sum, 1, n - 1) :
                  sum \in {SubSeq([i \in 1..n |->
                              (Bit(a, i) + Bit(b, i)
                               + (IF i = 1 THEN carry
                                  ELSE IF c[i - 1].g THEN 1 ELSE 0)) % 2],
                              1, n)} }) :
           n \in {Max(Len(a), Len(b)) + 1},
           c \in {Carries(SubSeq([i \in 1..(Max(Len(a), Len(b)) + 1) |->
                     [g |-> Bit(a, i) + Bit(b, i)
                               + (IF i = 1 THEN carry ELSE 0) >= 2,
                      p |-> Bit(a, i) + Bit(b, i) = 1]],
                     1, Max(Len(a), Len(b)) + 1))} })

\* a - b for a >= b
SubBits(a, b) ==
    Once({ SubSeq([i \in 1..Len(a) |->
                     (2 + Bit(a, i) - Bit(b, i)
                      - (IF (i > 1) /\ c[i - 1].g THEN 1 ELSE 0)) % 2],
                  1, Len(a)) :
           c \in {Carries(SubSeq([i \in 1..Len(a) |->
                     [g |-> Bit(a, i) < Bit(b, i),
                      p |-> Bit(a, i) = Bit(b, i)]], 1, Len(a)))} })

LessBits(a, b) ==
    \/ Len(a) < Len(b)
    \/ /\ Len(a) = Len(b)
       /\ \E i \in 1..Len(a) :
            /\ a[i] < b[i]
            /\ \A j \in (i + 1)..Len(a) : a[j] = b[j]

\* An exact result, rounded to a double.
RoundBits(neg, bits, e) ==
    LET n == Len(bits)
        k == n - SignificandBits
    IN IF n = 0 THEN FloatZero
       ELSE IF k <= 0
       THEN [neg |-> neg, m |-> Zeros(0 - k) \o bits, e |-> e + k]
       ELSE LET kept == SubSeq(bits, k + 1, n)
                sticky == \E i \in 1..(k - 1) : bits[i] = 1
                up == (bits[k] = 1) /\ (sticky \/ (kept[1] = 1))
            IN Once({ IF Len(r) > SignificandBits
                      THEN [neg |-> neg, m |-> Tail(r), e |-> e + k + 1]
                      ELSE [neg |-> neg, m |-> r, e |-> e + k] :
                      r \in {IF up THEN AddBits(kept, << >>, 1)
                             ELSE kept} })

FNeg(x) == IF Len(x.m) = 0 THEN x ELSE [x EXCEPT !.neg = ~@]

\* x + y
FAdd(x, y) ==
    IF Len(x.m) = 0 THEN y
    ELSE IF Len(y.m) = 0 THEN x
    \* less than a quarter of the last bit of the other: rounded away
    ELSE IF x.e - y.e > SignificandBits + 2 THEN x
    ELSE IF y.e - x.e > SignificandBits + 2 THEN y
    ELSE LET e == Min(x.e, y.e)
             a == Zeros(x.e - e) \o x.m
             b == Zeros(y.e - e) \o y.m
         IN IF x.neg = y.neg THEN RoundBits(x.neg, AddBits(a, b, 0), e)
            ELSE IF a = b THEN FloatZero
            ELSE IF LessBits(a, b)
            THEN RoundBits(y.neg, Trim(SubBits(b, a)), e)
            ELSE RoundBits(x.neg, Trim(SubBits(a, b)), e)

\* x - y
FSub(x, y) == FAdd(x, FNeg(y))

\* x > y
FGreater(x, y) ==
    IF Len(x.m) = 0 THEN (Len(y.m) # 0) /\ y.neg
    ELSE IF Len(y.m) = 0 THEN ~x.neg
    ELSE IF x.neg # y.neg THEN y.neg
    ELSE LET below == \/ y.e < x.e
                      \/ (y.e = x.e) /\ LessBits(y.m, x.m)
             above == \/ x.e < y.e
                      \/ (x.e = y.e) /\ LessBits(x.m, y.m)
         IN IF x.neg THEN above ELSE below

\* The literals of calc_stat_weights and calc_deriv, and the quotients and
\* products they are used in, as doubles.
F_0_02 == Double(FALSE, 83886, 20971, 136315, 0 - 58)
F_12 == Double(FALSE, 98304, 0, 0, 0 - 49)
F_50 == Double(FALSE, 102400, 0, 0, 0 - 47)
F_1350 == Double(FALSE, 86400, 0, 0, 0 - 42)
\* 40 * agi_mod, agi_mod = 1.0
F_40 == Double(FALSE, 81920, 0, 0, 0 - 47)
\* increment / 83.33 / 100. for the increment 40.0
F_40_crit == Double(FALSE, 80533, 224960, 2013, 0 - 60)
\* ap_mod, with Heart of the Wild: 1.1; 80 * ap_mod and ap_mod * 40.0
F_ap_mod_80 == Double(FALSE, 90112, 0, 0, 0 - 46)
F_ap_mod_40 == Double(FALSE, 90112, 0, 0, 0 - 47)

\* The players tried: the attributes that calc_deriv adjusts take two
\* values each.
StatPlayers ==
    [ attack_power : {Double(FALSE, 128000, 0, 0, 0 - 40),
                      Double(FALSE, 130371, 52428, 209715, 0 - 40)},
      miss_chance : {Double(FALSE, 83886, 20971, 136315, 0 - 56),
                     Double(FALSE, 109051, 236978, 46137, 0 - 57)},
      dodge_chance : {Double(FALSE, 83886, 20971, 136315, 0 - 59),
                      Double(FALSE, 68157, 115343, 94372, 0 - 56)},
      crit_chance : {Double(FALSE, 65536, 0, 0, 0 - 54),
                     Double(FALSE, 91750, 104857, 157286, 0 - 54)},
      swing_timer : {Double(FALSE, 65536, 0, 0, 0 - 52)},
      agility : {Double(FALSE, 128000, 0, 0, 0 - 43)},
      armor_pen_rating : {FloatZero},
      bonus_damage : {FloatZero} ]

\* swing_delta, which sim_utils derives from the swing timer: 1/32 s here.
swing_delta == Double(FALSE, 65536, 0, 0, 0 - 57)

\* The calls of calc_deriv that calc_stat_weights makes, in order.
StatOrder ==
    <<"attack_power", "miss_chance", "dodge_chance", "crit_chance",
      "swing_timer", "agility", "armor_pen_rating", "bonus_damage">>

\* "sign = 1 - 2 * int(...)", applied to the increment
Signed(x, negative) == IF negative THEN FNeg(x) ELSE x

\* The increment calc_stat_weights passes for a stat.
StatIncrement(p, param) ==
    CASE param = "attack_power" -> F_ap_mod_80
      [] param = "miss_chance" ->
            Signed(F_0_02,
                   FGreater(FSub(p.miss_chance, p.dodge_chance), F_0_02))
      [] param = "dodge_chance" ->
            Signed(F_0_02, FGreater(p.dodge_chance, F_0_02))
      [] param = "crit_chance" -> F_0_02
      [] param = "swing_timer" -> FNeg(swing_delta)
      [] param = "agility" -> F_40
      [] param = "armor_pen_rating" ->
            Signed(F_50, FGreater(p.armor_pen_rating, F_1350))
      [] param = "bonus_damage" -> F_12

\* calc_deriv up to the replicates: the stat and what goes with it.
IncrementStat(p, param, increment) ==
    LET p1 == [p EXCEPT ![param] = FAdd(@, increment)]
        p2 == IF param = "dodge_chance"
              THEN [p1 EXCEPT !.miss_chance = FAdd(@, increment)]
              ELSE p1
    IN IF param = "agility"
       THEN [p2 EXCEPT !.attack_power = FAdd(@, F_ap_mod_40),
                       !.crit_chance = FAdd(@, F_40_crit)]
       ELSE p2

\* calc_deriv after the replicates: "Reset the stat to original value".
ResetStat(p, param, increment, original_value) ==
    LET p1 == [p EXCEPT ![param] = original_value]
        p2 == IF param = "dodge_chance"
              THEN [p1 EXCEPT !.miss_chance = FSub(@, increment)]
              ELSE p1
    IN IF param = "agility"
       THEN [p2 EXCEPT !.attack_power = FSub(@, F_ap_mod_40),
                       !.crit_chance = FSub(@, F_40_crit)]
       ELSE p2

\* What calc_stat_weights leaves alone.
deriv_frame ==
    <<cfg, pool, error, self, time, previous_time, times, num_hot_ticks,
      dmg_done, damage, dmg_breakdown, params, damage_params, trinkets,
      aura_hist, series, log, combat_log, runs, luck>>

\* calc_stat_weights is called, with a base_dps, on a Simulation whose
\* player has the attributes chosen.
CalcStatWeights ==
    /\ pc = "stat_weights"
    /\ \E p \in StatPlayers :
         /\ player' = p
         /\ obs' = [stat |-> 0, increment |-> FloatZero,
                    original_value |-> FloatZero, before |-> p,
                    baseline |-> p]
    /\ pc' = "weights"
    /\ UNCHANGED deriv_frame

\* calc_deriv is entered for the next stat and increments the player.
CalcDerivIncrement ==
    /\ pc = "weights"
    /\ obs.stat < Len(StatOrder)
    /\ LET param == StatOrder[obs.stat + 1]
           increment == StatIncrement(player, param)
       IN /\ obs' = [obs EXCEPT !.stat = @ + 1,
                                !.increment = increment,
                                !.original_value = player[param],
                                !.before = player]
          /\ player' = IncrementStat(player, param, increment)
    /\ pc' = "replicates"
    /\ UNCHANGED deriv_frame

\* The replicates are done: calc_deriv resets the player and returns.
CalcDerivReset ==
    /\ pc = "replicates"
    /\ player' = ResetStat(player, StatOrder[obs.stat], obs.increment,
                           obs.original_value)
    /\ pc' = "weights"
    /\ UNCHANGED obs
    /\ UNCHANGED deriv_frame

DerivNext ==
    \/ CalcStatWeights
    \/ CalcDerivIncrement
    \/ CalcDerivReset

\* A call of calc_stat_weights.
DerivSpec == Start("stat_weights") /\ [][DerivNext]_vars

\* The start of a run of the default configuration.
DefaultsStart(at) == (cfg = Scenario(NoKwargs, NoKwargs)) /\ Start(at)

\* ------------------------------------------- bleed schedules, in doubles
\* The literals of rake, rip, shred and the tick checks, and the global
\* cooldown, as doubles.
F_1 == Double(FALSE, 65536, 0, 0, 0 - 52)
F_2 == Double(FALSE, 65536, 0, 0, 0 - 51)
F_3 == Double(FALSE, 98304, 0, 0, 0 - 51)
F_6 == Double(FALSE, 98304, 0, 0, 0 - 50)
F_9 == Double(FALSE, 73728, 0, 0, 0 - 49)
F_9_01 == Double(FALSE, 73809, 241172, 125829, 0 - 49)
F_1e_9 == Double(FALSE, 70368, 195081, 186005, 0 - 82)

\* The times of the first decision that are tried: 0.0, 0.1 and 29.2.
BleedTimes ==
    {FloatZero,
     Double(FALSE, 104857, 157286, 104858, 0 - 56),
     Double(FALSE, 119603, 52428, 209715, 0 - 48)}

\* The iterations of the main loop that are followed.
MaxBleedSteps == 12

\* The longest schedule that numpy.arange is asked for.
MaxArange == 12

\* i * x for a Python int i below 16: the exact product, rounded.
FTimes(i, x) ==
    LET s(k) == IF (i \div (2 ^ k)) % 2 = 1 THEN Zeros(k) \o x.m ELSE << >>
    IN RoundBits(x.neg,
                 AddBits(AddBits(s(0), s(1), 0), AddBits(s(2), s(3), 0), 0),
                 x.e)

\* x >= y
FGeq(x, y) == ~FGreater(y, x)

\* min(x, y)
FMin(x, y) == IF FGreater(x, y) THEN y ELSE x

\* list(numpy.arange(start, stop, step)) for doubles: ceil((stop - start)
\* / step) entries; the first is start, the second start + step, and the
\* entry at index i >= 2 is start + i * ((start + step) - start).
arange(start, stop, step) ==
    LET span == FSub(stop, start)
        fits == {k \in 0..MaxArange : FGeq(FTimes(k, step), span)}
        n == CHOOSE k \in fits : \A j \in fits : k <= j
        delta == FSub(FAdd(start, step), start)
    IN [i \in 1..n |->
           IF i = 1 THEN start
           ELSE IF i = 2 THEN FAdd(start, step)
           ELSE FAdd(start, FTimes(i - 1, delta))]

\* rake, when it lands
FloatRake(s, t) ==
    [s EXCEPT !.rake_debuff = TRUE,
              !.rake_end = FAdd(t, F_9),
              !.rake_ticks = arange(FAdd(t, F_3), FAdd(t, F_9_01), F_3)]

\* rip, when it lands
FloatRip(s, p, t) ==
    LET rip_end == FAdd(t, p.rip_duration)
    IN [s EXCEPT !.rip_debuff = TRUE,
                 !.rip_start = t,
                 !.rip_end = rip_end,
                 !.rip_ticks = arange(FAdd(t, F_2), FAdd(rip_end, F_1e_9),
                                      F_2)]

\* shred, when it lands: Glyph of Shred
FloatShred(s, p) ==
    IF s.rip_debuff /\ p.shred_glyph
       /\ FGreater(FAdd(p.rip_duration, F_6), FSub(s.rip_end, s.rip_start))
    THEN LET rip_end == FAdd(s.rip_end, F_2)
         IN [s EXCEPT !.rip_end = rip_end,
                      !.rip_ticks = Append(@, rip_end)]
    ELSE s

\* run(): "Check if a Rip tick happens at this time" up to "Check if Rake
\* fell off"; ticks counts the bleed damage that was applied.
FloatBleeds(s, t) ==
    LET rip_due == s.rip_debuff /\ FGeq(t, s.rip_ticks[1])
        s1 == IF rip_due
              THEN [s EXCEPT !.rip_ticks = Tail(@), !.ticks = @ + 1]
              ELSE s
        s2 == IF s1.rip_debuff /\ FGreater(t, FSub(s1.rip_end, F_1e_9))
              THEN [s1 EXCEPT !.rip_debuff = FALSE]
              ELSE s1
        rake_due == s2.rake_debuff /\ FGeq(t, s2.rake_ticks[1])
        s3 == IF rake_due
              THEN [s2 EXCEPT !.rake_ticks = Tail(@), !.ticks = @ + 1]
              ELSE s2
    IN IF s3.rake_debuff /\ FGreater(t, FSub(s3.rake_end, F_1e_9))
       THEN [s3 EXCEPT !.rake_debuff = FALSE]
       ELSE s3

\* max(x, y)
FMax(x, y) == IF FGreater(y, x) THEN y ELSE x

\* run(): "Decrement cooldowns by time since last event", for the global
\* cooldown
FloatCooldown(p, delta_t) ==
    [p EXCEPT !.gcd = FMax(FloatZero, FSub(@, delta_t))]

\* run(): "Update time", for the events that are followed here
FloatNextTime(s, p, t) ==
    LET next_action == FMax(FAdd(t, p.gcd), s.next_action)
        t1 == IF s.rip_debuff THEN FMin(next_action, s.rip_ticks[1])
              ELSE next_action
    IN IF s.rake_debuff THEN FMin(t1, s.rake_ticks[1]) ELSE t1

\* What the bleed schedules leave alone.
bleed_frame ==
    <<cfg, pool, error, times, num_hot_ticks, dmg_done, damage,
      dmg_breakdown, params, damage_params, trinkets, aura_hist, series,
      log, combat_log, runs, luck>>

\* run() has come to a decision at one of the times tried, with nothing on
\* the target and the global cooldown over.
BleedStart ==
    /\ pc = "bleed_start"
    /\ \E t \in BleedTimes :
         /\ time' = t
         /\ previous_time' = t
         /\ self' = [rip_debuff |-> FALSE, rip_start |-> FloatZero,
                     rip_end |-> FloatZero, rip_ticks |-> << >>,
                     rake_debuff |-> FALSE, rake_end |-> FloatZero,
                     rake_ticks |-> << >>, next_action |-> FloatZero,
                     ticks |-> 0]
    /\ player' = [rip_duration |-> F_12, shred_glyph |-> TRUE,
                  gcd |-> FloatZero]
    /\ obs' = [steps |-> 0, cast |-> "none"]
    /\ pc' = "bleeds"
    /\ UNCHANGED bleed_frame

\* The top of an iteration: cooldowns, ticks and expiries.
BleedTicks ==
    /\ pc = "bleeds"
    /\ self.rip_debuff => self.rip_ticks # << >>
    /\ self.rake_debuff => self.rake_ticks # << >>
    /\ player' = FloatCooldown(player, FSub(time, previous_time))
    /\ self' = FloatBleeds(self, time)
    /\ pc' = "act"
    /\ UNCHANGED <<time, previous_time, obs>>
    /\ UNCHANGED bleed_frame

\* The decision: when the player is able to act, one of Rip (when Rip is
\* not up), Rake (when Rake is not up) and Shred lands.
BleedCast ==
    /\ pc = "act"
    /\ IF FGreater(F_1e_9, player.gcd) /\ FGeq(time, self.next_action)
       THEN \E a \in {"rip", "rake", "shred"} :
              /\ (a = "rip") => ~self.rip_debuff
              /\ (a = "rake") => ~self.rake_debuff
              /\ self' = CASE a = "rip" -> FloatRip(self, player, time)
                           [] a = "rake" -> FloatRake(self, time)
                           [] a = "shred" -> FloatShred(self, player)
              /\ player' = [player EXCEPT !.gcd = F_1]
              /\ obs' = [obs EXCEPT !.cast = a]
       ELSE /\ UNCHANGED <<self, player>>
            /\ obs' = [obs EXCEPT !.cast = "none"]
    /\ pc' = "finish"
    /\ UNCHANGED <<time, previous_time>>
    /\ UNCHANGED bleed_frame

\* The bottom of an iteration: the time of the next one.
BleedAdvance ==
    /\ pc = "finish"
    /\ obs.steps < MaxBleedSteps
    /\ self.rip_debuff => self.rip_ticks # << >>
    /\ self.rake_debuff => self.rake_ticks # << >>
    /\ previous_time' = time
    /\ time' = FloatNextTime(self, player, time)
    /\ obs' = [obs EXCEPT !.steps = @ + 1]
    /\ pc' = "bleeds"
    /\ UNCHANGED <<self, player>>
    /\ UNCHANGED bleed_frame

BleedNext ==
    \/ BleedStart
    \/ BleedTicks
    \/ BleedCast
    \/ BleedAdvance

\* The bleeds of one run, in the arithmetic of the code.
BleedSpec == DefaultsStart("bleed_start") /\ [][BleedNext]_vars

\* --------------------------------------------- the trinket lists of objects
\* Python lists are objects: two names for one list see each other's
\* appends. The lists are kept in a heap, by identity; identity 0 is the
\* list that "trinkets=[]" makes once, when __init__ is defined, and that
\* every call without a trinkets argument receives.
DefaultList == 0

\* The calls of Simulation(...) that are followed, and the longest list
\* of trinkets a caller supplies.
MaxSims == 3
MaxSupplied == 1

\* An object made by (or, for a trinket, for) the call with number n.
Object(kind, n) == [kind |-> kind, made_by |-> n]

\* The list a caller builds for the call with number n.
SuppliedList(n, len) == [i \in 1..len |-> Object("Trinket", n)]

\* __init__: "self.trinkets = trinkets", "self.trinkets.append(...)" for
\* the controller and the two trackers. The appends go to the list that
\* was given.
SimulationTrinkets(lists, given, n) ==
    [lists EXCEPT ![given] = @ \o <<Object("ArmorDebuffs", n),
                                    Object("RipTracker", n),
                                    Object("RoarTracker", n)>>]

\* What the trinket lists leave alone.
sharing_frame ==
    <<cfg, pool, error, self, player, time, previous_time, times,
      num_hot_ticks, dmg_done, damage, dmg_breakdown, params, damage_params,
      aura_hist, series, log, combat_log, runs, luck>>

\* Nothing has been constructed yet.
SharingStart ==
    /\ pc = "sharing"
    /\ trinkets' = [lists |-> [id \in 0..MaxSims |-> << >>],
                    sims |-> << >>]
    /\ obs' = [calls |-> 0, reset_by |-> {}]
    /\ pc' = "simulations"
    /\ UNCHANGED sharing_frame

\* Simulation(player, fight_length, latency, ...) is called, without a
\* trinkets argument or with a list the caller has just built, and with
\* keyword arguments that are all known or not.
NewSimulation ==
    /\ pc = "simulations"
    /\ obs.calls < MaxSims
    /\ \E len \in (0 - 1)..MaxSupplied, known \in BOOLEAN :
         LET n == obs.calls + 1
             given == IF len < 0 THEN DefaultList ELSE n
             lists == IF len < 0 THEN trinkets.lists
                      ELSE [trinkets.lists EXCEPT ![n] = SuppliedList(n, len)]
         IN /\ trinkets' =
                  IF known
                  THEN [lists |-> SimulationTrinkets(lists, given, n),
                        sims |-> Append(trinkets.sims,
                                    [number |-> n,
                                     trinkets |-> given,
                                     supplied |-> IF len < 0 THEN << >>
                                                  ELSE SuppliedList(n, len),
                                     debuff_controller |->
                                         Object("ArmorDebuffs", n)])]
                  \* KeyError: no Simulation comes back
                  ELSE [trinkets EXCEPT !.lists = lists]
            /\ obs' = [obs EXCEPT !.calls = n]
    /\ UNCHANGED pc
    /\ UNCHANGED sharing_frame

\* run() on one of the Simulations: "Reset all trinkets to fresh state",
\* and their updates in the loop, reach every object of its list.
RunResetsTrinkets ==
    /\ pc = "simulations"
    /\ \E k \in 1..Len(trinkets.sims) :
         LET sim == trinkets.sims[k]
             list == trinkets.lists[sim.trinkets]
         IN obs' = [obs EXCEPT !.reset_by =
                        @ \cup {<<list[i], sim.number>> : i \in 1..Len(list)}]
    /\ UNCHANGED <<pc, trinkets>>
    /\ UNCHANGED sharing_frame

SharingNext ==
    \/ SharingStart
    \/ NewSimulation
    \/ RunResetsTrinkets

\* Simulations constructed one after another in one process, and run.
SharingSpec == DefaultsStart("sharing") /\ [][SharingNext]_vars

\* ------------------------------------------------- a tracker on its own
\* The times a tracker is updated at: every 2.5 s up to MaxTicks of them.
MaxTicks == 18
TrackerTimes == {k * Ds(25) : k \in 0..MaxTicks}

\* What the calls made on the Rip tracker leave alone.
tracker_frame ==
    <<cfg, pool, error, self, player, previous_time, times, num_hot_ticks, dmg_done,
      damage, dmg_breakdown, params, damage_params, series, log, combat_log,
      runs, pc, luck, obs>>

\* update(time, player, sim) at a time not before the last one, with the
\* aura up or not.
TrackerUpdate ==
    /\ pc = "tracker"
    /\ \E t \in TrackerTimes, active_now \in BOOLEAN :
         /\ t >= time
         /\ time' = t
         /\ trinkets' =
                [trinkets EXCEPT
                    !.RipTracker = UptimeTrackerUpdate(@, t, active_now,
                                                       fight_length)]
         /\ aura_hist' =
                [aura_hist EXCEPT
                    !.seen.Rip = @ \/ FoundActive(trinkets.RipTracker, t,
                                                  active_now)]
    /\ UNCHANGED tracker_frame

\* deactivate()
TrackerDeactivate ==
    /\ pc = "tracker"
    /\ trinkets' = [trinkets EXCEPT
                       !.RipTracker = UptimeTrackerDeactivate(@)]
    /\ UNCHANGED <<time, aura_hist>>
    /\ UNCHANGED tracker_frame

\* reset(), as at the start of a run
TrackerResetCall ==
    /\ pc = "tracker"
    /\ trinkets' = [trinkets EXCEPT !.RipTracker = TrackerReset]
    /\ time' = 0
    /\ aura_hist' = AuraHistInit
    /\ UNCHANGED tracker_frame

TrackerNext ==
    \/ TrackerUpdate
    \/ TrackerDeactivate
    \/ TrackerResetCall

\* Any calls of update, deactivate and reset on one tracker.
TrackerSpec == Start("tracker") /\ [][TrackerNext]_vars

\* ------------------------------------------------------------ properties
\* The schedule of a bleed still to be delivered, and what precedes it.
LastOf(q, otherwise) == IF q # << >> THEN q[Len(q)] ELSE otherwise

StrictlyIncreasing(q) == \A i \in 1..(Len(q) - 1) : q[i] < q[i + 1]

\* A step in which Lacerate lands on a target that already carries it.
LacerateRefreshed ==
    pc = "act" /\ obs'.cast = "Lacerate" /\ obs'.landed /\ self.lacerate_debuff

\* The schedule new continues the schedule old at 3-second spacing from the
\* last scheduled tick (or, with none scheduled, the last delivered one) up
\* to the end time.
ExtendedInPlace(old, new, last_delivered, end) ==
    LET base == LastOf(old, last_delivered)
    IN /\ Len(new) >= Len(old)
       /\ SubSeq(new, 1, Len(old)) = old
       /\ \A i \in (Len(old) + 1)..Len(new) :
              new[i] = base + (i - Len(old)) * Sec(3)
       /\ LastOf(new, base) <= end
       /\ LastOf(new, base) + Sec(3) > end

\* C1 as stated: a landed Lacerate refresh sets the end to cast time + 15 s,
\* extends the tick schedule in place at the running 3-second cadence, and
\* raises the stack count by exactly 1.
C1_RefreshAddsOneStack ==
    [][LacerateRefreshed =>
          /\ self'.lacerate_end = time + Sec(15)
          /\ ExtendedInPlace(self.lacerate_ticks, self'.lacerate_ticks,
                             self.last_lacerate_tick, self'.lacerate_end)
          /\ self'.lacerate_stacks = self.lacerate_stacks + 1]_vars

\* C1 amended: a landed Lacerate refresh sets the end to cast time + 15 s,
\* extends the tick schedule in place at the running 3-second cadence (never
\* restarted from the cast time), and raises the stack count by 1 up to the
\* cap of 5: a refresh at 5 stacks leaves the count at 5.
C1_RefreshExtendsInPlace ==
    [][LacerateRefreshed =>
          /\ self'.lacerate_end = time + Sec(15)
          /\ ExtendedInPlace(self.lacerate_ticks, self'.lacerate_ticks,
                             self.last_lacerate_tick, self'.lacerate_end)
          /\ self'.lacerate_stacks = Min(self.lacerate_stacks + 1, 5)]_vars

\* A refresh that landed between two ticks: the next tick keeps its time,
\* which is not a multiple of 3 s after the cast, and a stack was added.
C1_Witness ==
    /\ pc = "finish" /\ obs.cast = "Lacerate" /\ obs.landed
    /\ obs.pre.lacerate_debuff
    /\ obs.pre.lacerate_ticks # << >>
    /\ self.lacerate_ticks[1] = obs.pre.lacerate_ticks[1]
    /\ (self.lacerate_ticks[1] - time) % Sec(3) # 0
    /\ Len(self.lacerate_ticks) > Len(obs.pre.lacerate_ticks)
    /\ self.lacerate_stacks = obs.pre.lacerate_stacks + 1

\* A landed Shred on a target that carries Rip, with the Glyph of Shred.
ShredOnRip ==
    /\ pc = "act" /\ obs'.cast = "Shred" /\ obs'.landed
    /\ self.rip_debuff /\ setup.shred_glyph

C3_SnapshotAtCast ==
    (pc = "swing") =>
        \A r \in obs.ticked :
            (r.aura \in {"Rip", "Rake"}) =>
                /\ r.sr = obs.sr_at_cast[r.aura]
                /\ (r.damage.roar > 0) <=> obs.sr_at_cast[r.aura]

\* A tick of a Rip cast under Savage Roar and extended by a Shred since,
\* amplified although Savage Roar has lapsed.
C3_Witness ==
    /\ pc = "swing" /\ ~player.savage_roar
    /\ self.rip_end - self.rip_start > setup.rip_duration
    /\ \E r \in obs.ticked : r.aura = "Rip" /\ r.damage.roar > 0

\* The pending schedule of one active bleed is strictly increasing, later
\* than the last delivered tick of the instance, and not beyond its end.
ScheduleInOrder(ticks, aura, end) ==
    /\ StrictlyIncreasing(ticks)
    /\ \A i \in 1..Len(ticks) :
          /\ (obs.delivered[aura] > 0) => (ticks[i] > obs.last_tick[aura])
          /\ ticks[i] < end + Eps

\* C4: in every state, each active bleed's pending ticks are strictly
\* increasing, later than its last delivered tick and not later than its
\* end, and an active Lacerate has between 1 and 5 stacks.
C4_ScheduleInvariant ==
    /\ self.rip_debuff => ScheduleInOrder(self.rip_ticks, "Rip", self.rip_end)
    /\ self.rake_debuff =>
           ScheduleInOrder(self.rake_ticks, "Rake", self.rake_end)
    /\ self.lacerate_debuff =>
           /\ ScheduleInOrder(self.lacerate_ticks, "Lacerate",
                              self.lacerate_end)
           /\ self.lacerate_stacks \in 1..5

\* Lacerate at 5 stacks, refreshed, with ticks delivered and ticks pending.
C4_Witness ==
    /\ self.lacerate_debuff /\ self.lacerate_stacks = 5
    /\ obs.cast = "Lacerate" /\ obs.landed /\ obs.pre.lacerate_stacks = 5
    /\ obs.delivered["Lacerate"] > 0
    /\ Len(self.lacerate_ticks) >= 2


\* The bleed phase of the current step is over.
BleedsDone == pc \in {"swing", "act", "finish"}

\* The ticks of an instance due by now: one every period from its start up
\* to the earlier of now and its end.
TicksDue(start, end, period) == (Min(time, end) - start) \div period

AuraOf(s) == [f \in AuraFields |-> s[f]]

\* A cast of one of the five abilities that rolled and did not land.
FailedCast ==
    /\ pc = "act"
    /\ obs'.cast \in {"Mangle", "Rake", "Lacerate", "Rip", "Shred"}
    /\ ~obs'.landed

\* C6: a Mangle, Rake, Lacerate, Rip or Shred that does not land leaves
\* every aura field of the Simulation as it was.
C6_FailedCastKeepsAuras ==
    [][FailedCast => (AuraOf(self') = AuraOf(self))]_vars

\* A missed Shred on a target whose Rip the glyph could still extend.
C6_Witness ==
    /\ pc = "finish" /\ obs.cast = "Shred" /\ ~obs.landed
    /\ setup.shred_glyph /\ self.rip_debuff
    /\ self.rip_end - self.rip_start < setup.rip_duration + Sec(6)
    /\ AuraOf(self) = AuraOf(obs.pre)

\* C7 as stated: the loop of run ends with the clock beyond fight_length
\* and in no other way, each pass moves on, and the sample times are
\* non-decreasing, start at 0 and stay within fight_length.
C7_LoopTerminates ==
    /\ pc # "raised"
    /\ (pc = "done") => (time > fight_length)
    /\ previous_time <= time
    /\ times.last <= previous_time
    /\ times.last <= fight_length
    /\ (times.len = 1) => (times.last = 0)

\* The times at which something is scheduled at the end of a step: the next
\* swing, the next decision, the first pending tick of each active bleed,
\* the first proc expiry.
ScheduledEvents ==
    {self.swing_times[1], Max(previous_time + player.gcd, self.next_action)}
    \cup (IF self.rip_debuff THEN {self.rip_ticks[1]} ELSE {})
    \cup (IF self.rake_debuff THEN {self.rake_ticks[1]} ELSE {})
    \cup (IF self.lacerate_debuff /\ (self.lacerate_ticks # << >>)
          THEN {self.lacerate_ticks[1]} ELSE {})
    \cup (IF self.proc_end_times # << >> THEN {self.proc_end_times[1]} ELSE {})

\* The end times of the active bleeds, debuffs and timed buffs.
PendingExpiries ==
    (IF self.rip_debuff THEN {self.rip_end} ELSE {})
    \cup (IF self.rake_debuff THEN {self.rake_end} ELSE {})
    \cup (IF self.lacerate_debuff THEN {self.lacerate_end} ELSE {})
    \cup (IF self.mangle_debuff THEN {self.mangle_end} ELSE {})
    \cup (IF player.savage_roar THEN {self.roar_end} ELSE {})
    \cup (IF player.berserk THEN {self.berserk_end} ELSE {})
    \cup (IF self.tigers_fury THEN {self.tf_end} ELSE {})

\* A step is about to start, the clock having just been advanced.
StepStarts == pc = "upkeep" /\ times.len > 0

\* C8 as stated: the clock advances to the minimum of the scheduled events
\* and the expiries of the active auras and timed buffs, so that no step
\* occurs later than any of them.
C8_ClockIsMinWithExpiries ==
    (StepStarts /\ time <= fight_length) =>
        /\ time \in ScheduledEvents \cup PendingExpiries
        /\ \A e \in ScheduledEvents \cup PendingExpiries : time <= e

\* C8 amended: the clock advances to exactly the minimum of the next swing,
\* the next decision-readiness time, the first pending tick of each active
\* bleed and the first proc expiry, so no step occurs later than any of
\* these; the expiries of auras and timed buffs are not among them.
C8_ClockIsMinOfEvents ==
    StepStarts =>
        /\ time \in ScheduledEvents
        /\ \A e \in ScheduledEvents : time <= e

\* A step placed on a Rake tick, earlier than the next swing and decision.
C8_Witness ==
    /\ StepStarts /\ self.rake_debuff
    /\ time = self.rake_ticks[1]
    /\ time < self.swing_times[1]
    /\ time < Max(previous_time + player.gcd, self.next_action)

\* C9: the decision engine runs at most once in a step, only with the
\* global cooldown over and the time at or after next_action, so that a
\* GCD-bound cast never follows another by less than its global cooldown.
C9_DecisionOnlyWhenReady ==
    [][(pc = "act" /\ obs'.decided) =>
          /\ ~obs.decided
          /\ player.gcd < Eps
          /\ time >= self.next_action
          /\ (obs'.cast \in GcdBound) =>
                 (time >= obs.gcd_cast_at + obs.gcd_cast_len)]_vars

\* Two casts exactly one global cooldown apart.
C9_Witness ==
    /\ pc = "finish" /\ obs.decided /\ obs.cast = "Shred"
    /\ obs.prev_cast_at >= 0
    /\ time = obs.prev_cast_at + Sec(1)
    /\ time >= obs.pre.next_action

\* The decision is taken in Cat Form with no shift pending and no
\* emergency bearweave.
CatDecision ==
    /\ pc = "act" /\ obs'.decided
    /\ player.cat_form /\ ~player.ready_to_shift
    /\ ~emergency_bearweave(self, player, time)

\* C10: in Cat Form the cast follows the first true gate in the order
\* Berserk, Savage Roar, Rip, Ferocious Bite, Rake, Mangle, filler: an
\* ability is never cast while the gate of one before it is true.
C10_CatPriority ==
    [][CatDecision =>
          LET c == obs'.cast
              B == berserk_now(self, player, time)
              R == roar_now(self, player, time)
              P == rip_now(self, player, time)
              F == bite_now(self, player, time)
              K == rake_now(self, player, time)
              M == mangle_now(self, player, time)
          IN /\ (c = "Berserk") => B
             /\ (c = "Roar") => (R /\ ~B)
             /\ (c = "Rip") => (P /\ ~B /\ ~R)
             /\ (c = "Bite") => (F /\ ~B /\ ~R /\ ~P)
             /\ (c = "Rake") => (K /\ ~B /\ ~R /\ ~P /\ ~F)
             /\ (c = "Mangle") => (~B /\ ~R /\ ~P /\ ~F /\ ~K)
             /\ (c = "Shred") => (~B /\ ~R /\ ~P /\ ~F /\ ~K /\ ~M)
             /\ (c \in {"Shift", "Powershift", "Lacerate"}) => FALSE]_vars

\* The Rip gate is true, Rip is not affordable, Shred would be: no cast.
C10_Witness ==
    /\ pc = "finish" /\ obs.decided /\ obs.branch = "rip" /\ obs.cast = "none"
    /\ player.cat_form /\ player.energy < rip_cost(player)
    /\ player.omen_proc = FALSE

\* A gate of execute_rotation that precedes the bearweave gate is true.
EarlierGate(s, p, t) ==
    \/ berserk_now(s, p, t) \/ roar_now(s, p, t) \/ rip_now(s, p, t)
    \/ bite_now(s, p, t) \/ rake_now(s, p, t) \/ mangle_now(s, p, t)

\* The decision flagged the shift and cast nothing.
FlaggedShift == player'.ready_to_shift /\ obs'.cast = "none"

\* C11 as stated: whenever bearweave_now is true at a decision in Cat Form
\* (no emergency), the engine flags the shift, in preference to Berserk,
\* Savage Roar, Rip, Ferocious Bite, Rake, Mangle and the fillers.
C11_BearweaveBeforeAllGates ==
    [][(CatDecision /\ bearweave_now(self, player, time)) => FlaggedShift]_vars

\* C11 amended: at a decision in Cat Form (no emergency) the engine flags
\* the shift exactly when bearweave_now is true and none of the gates of
\* Berserk, Savage Roar, Rip, Ferocious Bite, Rake and Mangle is; the
\* bearweave is preferred to the fillers only, and with one of those gates
\* true no shift is flagged.
C11_BearweaveBeforeFillers ==
    [][CatDecision =>
          /\ (bearweave_now(self, player, time)
                 /\ ~EarlierGate(self, player, time)) => FlaggedShift
          /\ player'.ready_to_shift =>
                 /\ bearweave_now(self, player, time)
                 /\ ~EarlierGate(self, player, time)
                 /\ obs'.cast = "none"]_vars

\* A bearweave flagged in Cat Form with Energy enough for neither filler.
C11_Witness ==
    /\ pc = "finish" /\ obs.decided /\ obs.branch = "bearweave"
    /\ player.cat_form /\ player.ready_to_shift /\ obs.cast = "none"
    /\ bearweave_now(obs.pre, obs.pre_p, time)
    /\ ~EarlierGate(obs.pre, obs.pre_p, time)

\* Rip's projected expiry: its start plus the full duration with every
\* extension of the Glyph of Shred.
ProjectedRipEnd ==
    self.rip_start + setup.rip_duration
    + (IF setup.shred_glyph THEN Sec(6) ELSE 0)

\* Savage Roar is inactive and a combo point is held.
RoarMissing == (~player.savage_roar) /\ (player.combo_points >= 1)

\* The conditions under which an active Savage Roar may be replaced early.
RoarClippable ==
    /\ player.savage_roar /\ player.combo_points >= 1
    /\ self.rip_debuff
    /\ fight_length - self.rip_end >= Sec(10)
    /\ self.roar_end <= ProjectedRipEnd
    /\ time + roar_durations(player.combo_points)
           >= ProjectedRipEnd + strategy.min_roar_offset

\* C12: at a decision in Cat Form on which no gate before Savage Roar's acts
\* (no emergency bearweave, no Berserk activation), Savage Roar is selected
\* (cast, or awaited when its Energy is missing) whenever it is inactive
\* with at least 1 combo point held; and Savage Roar is cast only then or,
\* replacing an active Roar, only when Rip is active with at least 10 s of
\* fight left after rip_end, the current Roar ends no later than Rip's
\* projected expiry, and the new Roar ends at least min_roar_offset after it.
C12_RoarRefreshOrClip ==
    [][(CatDecision /\ ~berserk_now(self, player, time)) =>
          /\ (RoarMissing \/ RoarClippable) =>
                IF player.energy >= roar_cost(player)
                THEN /\ obs'.cast = "Roar"
                     /\ self'.roar_end =
                            time + roar_durations(player.combo_points)
                     /\ player'.savage_roar
                ELSE /\ obs'.cast = "none"
                     /\ self'.roar_end = self.roar_end
          /\ (obs'.cast = "Roar") => (RoarMissing \/ RoarClippable)
          /\ (obs'.cast = "Roar" /\ player.savage_roar) => RoarClippable]_vars

\* An active Savage Roar replaced early: the new one outlasts Rip's projected
\* expiry by the margin, the old one would not have outlasted it.
C12_Witness ==
    /\ pc = "finish" /\ obs.cast = "Roar" /\ obs.pre_p.savage_roar
    /\ obs.pre.rip_debuff
    /\ obs.pre.roar_end > time
    /\ obs.pre.roar_end <= ProjectedRipEnd
    /\ self.roar_end >= ProjectedRipEnd + strategy.min_roar_offset

\* The full duration of Berserk: 15 s, 20 s with the glyph.
BerserkDuration == Sec(15) + (IF setup.berserk_glyph THEN Sec(5) ELSE 0)

\* The current (or last) Berserk was started during the fight.
BerserkStartedInFight == self.berserk_end - BerserkDuration >= 0

\* C13: Berserk is activated in the fight only at a decision with
\* use_berserk set, the cooldown of Berserk fully elapsed and the remaining
\* cooldown of Tiger's Fury above the full duration of Berserk; it is never
\* activated while active, and while a Berserk started in the fight lasts,
\* Tiger's Fury stays on cooldown.
C13_BerserkActivation ==
    /\ [][(pc = "act" /\ obs'.cast = "Berserk") =>
             /\ obs'.decided
             /\ strategy.use_berserk
             /\ player.berserk_cd = 0
             /\ player.tf_cd > BerserkDuration
             /\ ~player.berserk
             /\ player'.berserk
             /\ self'.berserk_end = time + BerserkDuration]_vars
    /\ [][(player'.berserk /\ ~player.berserk) =>
             (pc = "act" /\ obs'.cast = "Berserk")]_vars
    /\ []((BerserkStartedInFight
             /\ (player.berserk \/ (pc # "upkeep" /\ time < self.berserk_end)))
            => player.tf_cd > 0)

\* The last second of a Berserk started in the fight: Tiger's Fury is still
\* on cooldown.
C13_Witness ==
    /\ pc = "act" /\ player.berserk /\ BerserkStartedInFight
    /\ self.berserk_end - time <= Sec(1)
    /\ self.berserk_end > time
    /\ player.tf_cd > 0 /\ player.tf_cd < Sec(10)

\* The bite combo-point threshold is met, and fewer than 10 s of the fight
\* remain or the active Rip ends within 10 s of the fight end.
BiteAtEndDue ==
    /\ player.combo_points >= strategy.min_combos_for_bite
    /\ \/ fight_length - time < Sec(10)
       \/ self.rip_debuff /\ (fight_length - self.rip_end < Sec(10))

\* No gate before Ferocious Bite's acts: no Berserk activation, no Roar.
BiteNotPreempted ==
    (~berserk_now(self, player, time)) /\ (~roar_now(self, player, time))

\* Ferocious Bite is selected: cast, or awaited when its Energy is missing.
BiteSelected ==
    IF player.energy >= bite_cost(player) THEN obs'.cast = "Bite"
    ELSE obs'.cast = "none" /\ obs'.branch = "bite"

\* Rip is never cast with fewer than 10 s of the fight left nor while Rip is
\* active, and the gates of Rip and of the end-of-fight Bite exclude each
\* other.
RipNotAtEnd ==
    /\ (obs'.cast = "Rip") =>
           (fight_length - time >= Sec(10)) /\ (~self.rip_debuff)
    /\ ~(rip_now(self, player, time) /\ bite_at_end(self, player, time))
    /\ BiteAtEndDue => ~(obs'.cast = "Rip")

\* C14 as stated: Rip is never applied in the last 10 s nor while active;
\* when the end-of-fight Bite condition holds without a free-cast proc,
\* Ferocious Bite is selected; the two gates are never both true.
C14_BiteAtEndAlways ==
    [][CatDecision =>
          /\ RipNotAtEnd
          /\ (BiteAtEndDue /\ ~player.omen_proc /\ BiteNotPreempted)
                => BiteSelected]_vars

\* C14 amended: as stated, except that while Berserk is active Ferocious
\* Bite is selected only with Energy at or below berserk_bite_thresh; above
\* it the engine moves on to the gates after Ferocious Bite's.
C14_BiteAtEndUnlessBerserkEnergy ==
    [][CatDecision =>
          /\ RipNotAtEnd
          /\ (BiteAtEndDue /\ ~player.omen_proc /\ BiteNotPreempted) =>
                IF player.berserk
                   /\ player.energy > strategy.berserk_bite_thresh
                THEN obs'.cast \notin {"Bite", "Rip"} /\ obs'.branch # "bite"
                ELSE BiteSelected]_vars

\* Ferocious Bite cast with enough combo points for Rip, no Rip on the
\* target and fewer than 10 s left.
C14_Witness ==
    /\ pc = "finish" /\ obs.cast = "Bite"
    /\ ~obs.pre.rip_debuff
    /\ obs.pre_p.combo_points >= strategy.min_combos_for_rip
    /\ fight_length - time < Sec(10)
    /\ ~bite_before_rip(obs.pre, obs.pre_p, time)

\* A decision taken in Cat Form with a Clearcasting proc pending.
ProcDecision ==
    pc = "act" /\ obs'.decided /\ player.cat_form /\ player.omen_proc

\* The builder that consumes the proc, cast for free.
FreeBuilderCast ==
    /\ obs'.cast = IF ~self.mangle_debuff THEN "Mangle" ELSE "Shred"
    /\ ~player'.omen_proc
    /\ player'.energy = player.energy

\* C15 as stated: at a decision in Cat Form with a Clearcasting proc pending
\* the proc is consumed by a builder (Mangle if its debuff is missing,
\* otherwise Shred) cast without any Energy check; Rip, Ferocious Bite and
\* Rake are never cast and no bearweave is started.
C15_ProcConsumedAtOnce ==
    [][ProcDecision =>
          /\ FreeBuilderCast
          /\ obs'.cast \notin {"Rip", "Bite", "Rake", "Shift"}
          /\ ~player'.ready_to_shift]_vars

\* C15 amended: with a Clearcasting proc pending at a decision in Cat Form,
\* Rip, Ferocious Bite and Rake are never cast and no bearweave other than
\* an emergency one is flagged; and where no shift is pending and none of
\* the emergency bearweave, Berserk and Savage Roar gates is true, the proc
\* is consumed by a builder (Mangle if its debuff is missing, otherwise
\* Shred) cast without any Energy or floating-reservation check.
C15_ProcConsumedByBuilder ==
    [][ProcDecision =>
          /\ obs'.cast \notin {"Rip", "Bite", "Rake"}
          /\ (player'.ready_to_shift /\ ~player.ready_to_shift) =>
                 emergency_bearweave(self, player, time)
          /\ (/\ ~player.ready_to_shift
              /\ ~emergency_bearweave(self, player, time)
              /\ ~berserk_now(self, player, time)
              /\ ~roar_now(self, player, time)) => FreeBuilderCast]_vars

\* A Shred cast for free with less Energy than it costs, after reserving
\* for the pending refreshes.
C15_Witness ==
    /\ pc = "finish" /\ obs.cast = "Shred" /\ obs.pre_p.omen_proc
    /\ excess_e(obs.pre, obs.pre_p, time) < shred_cost(obs.pre_p)
    /\ player.energy = obs.pre_p.energy
    /\ ~player.omen_proc

\* A decision in Cat Form that reaches the generic filler: no Clearcasting,
\* no gate before the filler is true.
FillerDecision ==
    /\ CatDecision
    /\ ~player.omen_proc
    /\ ~EarlierGate(self, player, time)
    /\ ~bearweave_now(self, player, time)

\* The cost of the generic filler: Mangle under mangle_spam, else Shred.
FillerCost ==
    IF strategy.mangle_spam THEN mangle_cost(player) ELSE shred_cost(player)

\* C16: without a Clearcasting proc the generic filler (Shred, or Mangle
\* under mangle_spam) is cast exactly when Energy minus the floating
\* reservation is at least its cost; otherwise nothing is cast, no Energy
\* is spent and the engine waits; so the Energy left by a filler is never
\* below the reservation for the pending refreshes.
C16_FillerSparesReservation ==
    [][FillerDecision =>
          LET reserved == floating_energy(self, player, time)
          IN /\ reserved >= 0
             /\ IF player.energy - reserved >= FillerCost
                THEN /\ obs'.cast =
                            IF strategy.mangle_spam THEN "Mangle" ELSE "Shred"
                     /\ player'.energy >= reserved
                     /\ player'.energy < player.energy
                ELSE /\ obs'.cast = "none"
                     /\ player'.energy = player.energy
                     /\ self'.next_action > time]_vars

\* No filler although the Energy at hand covers its cost: part of it is
\* reserved for a pending refresh, and the engine waits.
C16_Witness ==
    /\ pc = "finish" /\ obs.decided /\ obs.cast = "none"
    /\ obs.branch = "shred" /\ ~obs.pre_p.omen_proc
    /\ obs.pre_p.energy >= shred_cost(obs.pre_p)
    /\ floating_energy(obs.pre, obs.pre_p, time) > 0
    /\ player.energy = obs.pre_p.energy
    /\ self.next_action > time

\* The branches of the decision in Cat Form that cast an ability for Energy.
EnergyBranches ==
    {"roar", "rip", "bite", "rake", "mangle", "mangle_spam", "shred"}

\* The cost of the action a branch has chosen.
ChosenCost(b, p) ==
    CASE b = "roar" -> roar_cost(p)
      [] b = "rip" -> rip_cost(p)
      [] b = "bite" -> bite_cost(p)
      [] b = "rake" -> rake_cost(p)
      [] b \in {"mangle", "mangle_spam"} -> mangle_cost(p)
      [] b = "shred" -> shred_cost(p)

\* The Energy available to it: for a filler, what the reservation leaves.
Available(b, s, p, t) ==
    IF b \in {"mangle_spam", "shred"}
    THEN p.energy - floating_energy(s, p, t)
    ELSE p.energy

\* The chosen action costs more than is available and is not free.
Unaffordable(b, s, p, t) ==
    /\ b \in EnergyBranches
    /\ ChosenCost(b, p) > Available(b, s, p, t)
    /\ ~(p.omen_proc /\ b \in {"rip", "rake", "mangle", "shred"})

\* The end times of the auras whose refresh is pending.
PendingRefreshTimes(s, p) ==
    (IF s.rip_debuff /\ s.rip_end < fight_length - Sec(10)
     THEN {s.rip_end} ELSE {})
    \cup (IF s.rake_debuff /\ s.rake_end < fight_length - Sec(9)
          THEN {s.rake_end} ELSE {})
    \cup (IF s.mangle_debuff /\ s.mangle_end < fight_length - Sec(1)
          THEN {s.mangle_end} ELSE {})
    \cup (IF p.savage_roar THEN {s.roar_end} ELSE {})

\* The moment the Energy becomes sufficient.
SufficientAt(b, s, p, t) ==
    t + TimeToRegen(ChosenCost(b, p) - Available(b, s, p, t))

\* The earlier of a time and the pending refreshes.
CutAtPending(at, s, p) ==
    IF \E r \in PendingRefreshTimes(s, p) : r < at
    THEN CHOOSE r \in PendingRefreshTimes(s, p) :
             \A q \in PendingRefreshTimes(s, p) : r <= q
    ELSE at

\* C17 as stated: when the chosen action costs more than the available
\* Energy, nothing is cast and the next decision time is the moment the
\* Energy becomes sufficient plus the latency, never earlier than the
\* current time plus the latency.
C17_WaitUntilAffordable ==
    [][(CatDecision /\ Unaffordable(obs'.branch, self, player, time)) =>
          /\ obs'.cast = "none"
          /\ self'.next_action =
                 SufficientAt(obs'.branch, self, player, time) + latency
          /\ self'.next_action >= time + latency]_vars

\* C17 amended: when the chosen action costs more than the available
\* Energy, nothing is cast and the next decision time is the earlier of the
\* moment the Energy becomes sufficient and the end of the first aura whose
\* refresh is pending (Rip, Rake, Mangle, Savage Roar), plus the latency;
\* the wait is never negative, so the next decision time is never earlier
\* than the current time plus the latency.
C17_WaitCutAtPendingRefresh ==
    [][(CatDecision /\ Unaffordable(obs'.branch, self, player, time)) =>
          /\ obs'.cast = "none"
          /\ player'.energy = player.energy
          /\ self'.next_action =
                 CutAtPending(SufficientAt(obs'.branch, self, player, time),
                              self, player) + latency
          /\ self'.next_action >= time + latency
          /\ self'.next_action > time]_vars

\* A wait for the filler's Energy cut short at the end of a pending refresh.
C17_Witness ==
    /\ pc = "finish" /\ obs.decided /\ obs.cast = "none"
    /\ obs.pre_p.cat_form
    /\ Unaffordable(obs.branch, obs.pre, obs.pre_p, time)
    /\ PendingRefreshTimes(obs.pre, obs.pre_p) # {}
    /\ self.next_action <
           SufficientAt(obs.branch, obs.pre, obs.pre_p, time) + latency
    /\ self.next_action - latency \in PendingRefreshTimes(obs.pre, obs.pre_p)
    /\ self.next_action >= time + latency

\* The swing of this step has just been resolved.
SwingResolved == pc = "swing" /\ obs'.swing # "none"

\* The Rage threshold of the claim, from the lookahead of the swing.
LookaheadThreshold(s, p, t) ==
    IF swing_emergency_lacerate_next(s, p, t) THEN 23
    ELSE IF swing_shift_next(s, p, t) THEN 10
    ELSE IF swing_mangle_next(s, p, t) THEN 25
    ELSE IF swing_lacerate_next(s, p, t) THEN 23
    ELSE 10

\* C18: a swing in Cat Form is always a plain auto-attack; in Dire Bear Form
\* Maul replaces it if and only if Rage (after Enrage) is at least 23 when
\* an emergency Lacerate is needed next, else 10 when a shift to Cat Form is
\* expected next, else 25 when Mangle is expected next, else 23 when
\* Lacerate is expected next, else 10.  A swing is resolved only at its due
\* time and is then removed from the schedule, the schedule is strictly
\* increasing and the clock never passes a due swing: each due swing is
\* resolved exactly once.
C18_SwingResolution ==
    /\ [][(pc = "swing") =>
             LET p1 == obs'.swing_p
             IN /\ (obs'.swing # "none") <=> (time = self.swing_times[1])
                /\ SwingResolved =>
                      /\ self'.swing_times = Tail(self.swing_times)
                      /\ player.cat_form => obs'.swing = "auto"
                      /\ (~player.cat_form) =>
                            ((obs'.swing = "Maul") <=>
                                 (p1.rage >=
                                      LookaheadThreshold(self, p1, time)))
                      /\ (obs'.swing = "Maul") =>
                            player'.rage = p1.rage - MaulCost
                /\ (~SwingResolved) => self'.swing_times = self.swing_times]_vars
    /\ [](/\ StrictlyIncreasing(self.swing_times)
          /\ (self.swing_times # << >>) =>
                IF pc \in {"act", "finish"}
                THEN time < self.swing_times[1]
                ELSE time <= self.swing_times[1])

\* A bear swing left as an auto-attack with 10 to 24 Rage, because Mangle
\* is expected on the next global cooldown and no shift is.
C18_Witness ==
    /\ pc = "act" /\ obs.swing = "auto" /\ ~obs.swing_p.cat_form
    /\ obs.swing_p.rage >= 10 /\ obs.swing_p.rage < 25
    /\ swing_mangle_next(obs.swing_s, obs.swing_p, time)
    /\ ~swing_shift_next(obs.swing_s, obs.swing_p, time)
    /\ ~swing_emergency_lacerate_next(obs.swing_s, obs.swing_p, time)
    /\ player.rage > obs.swing_p.rage


\* ------------------------------------------------------------------ C19
CatEnergyCasts == {"Roar", "Rip", "Bite", "Rake", "Mangle", "Shred"}

\* The Energy cost of a cat ability for the player p.
AbilityCost(cast, p) ==
    CASE cast = "Roar" -> roar_cost(p)
      [] cast = "Rip" -> rip_cost(p)
      [] cast = "Bite" -> bite_cost(p)
      [] cast = "Rake" -> rake_cost(p)
      [] cast = "Mangle" -> mangle_cost(p)
      [] cast = "Shred" -> shred_cost(p)

ResourcesInBounds(p) ==
    /\ 0 <= p.energy /\ p.energy <= En(100)
    /\ 0 <= p.rage /\ p.rage <= 100

\* This step's call of execute_rotation.
Decides == pc = "act" /\ AbleToAct(self, player, time)

\* Enrage was used in this step's Swing.
EnrageUsed == (player.enrage_cd < Eps) /\ (obs'.swing_p.enrage_cd = Sec(60))

\* The rage after this step's Revitalize roll.
RageAfterRevitalize ==
    IF obs'.revitalize /\ ~player.cat_form THEN Min(100, player.rage + 4)
    ELSE player.rage

\* C19: Energy and Rage stay within [0, 100] in every state of a run, the
\* sampled ones included: a cat ability that costs Energy is cast with at
\* least its cost unless Clearcasting is pending, Lacerate, Mangle and Maul
\* in Dire Bear Form are cast with at least 13, 15 and 10 Rage, and the
\* gains of Tiger's Fury (60 Energy), Revitalize (8 Energy or 4 Rage) and
\* Enrage (20 Rage) stop at 100.
C19_ResourcesWithinBounds ==
    /\ [](ResourcesInBounds(player))
    /\ [][(Decides /\ player.cat_form /\ (obs'.cast \in CatEnergyCasts)
                   /\ ~player.omen_proc)
          => player.energy >= AbilityCost(obs'.cast, player)]_vars
    /\ [][(Decides /\ ~player.cat_form)
          => /\ (obs'.cast = "Lacerate") => (player.rage >= LacerateCost)
             /\ (obs'.cast = "Mangle") => (player.rage >= BearMangleCost)]_vars
    /\ [][(pc = "swing" /\ obs'.swing = "Maul")
          => obs'.swing_p.rage >= MaulCost]_vars
    /\ [][(pc = "finish" /\ obs'.cast = "Tiger's Fury")
          => player'.energy = Min(En(100), player.energy + En(60))]_vars
    /\ [][(pc = "swing")
          => /\ (obs'.revitalize /\ player.cat_form)
                => (player'.energy = Min(En(100), player.energy + En(8)))
             /\ obs'.swing_p.rage =
                  IF EnrageUsed THEN Min(100, RageAfterRevitalize + 20)
                  ELSE RageAfterRevitalize]_vars

\* A Revitalize proc found the cat above 92 Energy and left it at the cap.
C19_Witness ==
    /\ pc = "act"
    /\ obs.revitalize
    /\ obs.revit_p.cat_form
    /\ obs.revit_p.energy > En(92)
    /\ obs.revit_p.energy < En(100)
    /\ player.energy = En(100)


\* ------------------------------------------------------------------ C20
RECURSIVE SumOfEntries(_, _)
SumOfEntries(breakdown, abilities) ==
    IF abilities = {} THEN 0
    ELSE LET a == CHOOSE x \in abilities : TRUE
         IN breakdown[a] + SumOfEntries(breakdown, abilities \ {a})

\* The sum of the damage recorded per ability.
BreakdownTotal == SumOfEntries(dmg_breakdown, DOMAIN dmg_breakdown)

RECURSIVE SumOfTicks(_, _)
SumOfTicks(ticks, field) ==
    IF ticks = {} THEN 0
    ELSE LET r == CHOOSE x \in ticks : TRUE
         IN r.damage[field] + SumOfTicks(ticks \ {r}, field)

\* Between the reset of dmg_done and its sample the step's damage is
\* credited but not yet part of the series.
StepOpen == pc \notin {"upkeep", "done", "returned"}

SunderStacks == params.sunder

\* Stack n was applied no earlier than 1.5 s * (n - 1).
StacksOnSchedule ==
    /\ Len(aura_hist.sunder_at) = SunderStacks
    /\ \A n \in 1..Len(aura_hist.sunder_at) :
          aura_hist.sunder_at[n] >= Ds(15) * (n - 1)

\* Two stack applications are at least 1.5 s apart.
StacksSpaced ==
    \A n \in 1..(Len(aura_hist.sunder_at) - 1) :
       aura_hist.sunder_at[n + 1] - aura_hist.sunder_at[n] >= Ds(15)

\* Two stack applications fall in different event steps.
StacksInDifferentSteps ==
    \A n \in 1..(Len(aura_hist.sunder_steps) - 1) :
       aura_hist.sunder_steps[n + 1] > aura_hist.sunder_steps[n]

\* What holds of the stacks whether or not they keep their distance.
SunderBookkeeping ==
    /\ [](StacksOnSchedule /\ (SunderStacks \in 0..5))
    /\ []((~trinkets.debuff_controller.use_sunder) => (SunderStacks = 0))
    /\ [][/\ params'.sunder >= params.sunder
          /\ params'.sunder <= params.sunder + 1
          /\ (params'.sunder > params.sunder) => (damage_params' = params')
         ]_vars

\* C21 as claimed: stack n of Sunder Armor is never applied before
\* 1.5 s * (n - 1), two applications are never less than 1.5 s apart and
\* never in the same event step, the count never decreases and never
\* exceeds 5, the damage parameters are derived again after each stack,
\* and without Sunder the count stays 0.
C21_SunderEveryGcd ==
    /\ SunderBookkeeping
    /\ [](StacksSpaced /\ StacksInDifferentSteps)

\* C21 as amended: the same without the distance of 1.5 s: an update call
\* adds at most one stack, and a stack that had to wait for an event step
\* can be followed by the next one less than 1.5 s later.
C21_SunderOnSchedule == SunderBookkeeping

\* Five stacks are up although two of them came less than 1.5 s apart.
C21_Witness ==
    /\ SunderStacks = 5
    /\ damage_params.sunder = 5
    /\ ~StacksSpaced

\* A call of run() starts on a Simulation that ran before.
RunStartsAgain == (pc = "done") /\ (pc' = "upkeep") /\ ~runs'.fresh

\* C22: ArmorDebuffs.reset sets the stack count to 0 whatever it was, a
\* second reset changes nothing, and whether Sunder Armor is applied is left
\* as it was; so every call of run() on the same Simulation starts from 0
\* stacks, also after a run that reached 5, and applies the stacks again
\* on the same schedule, at the same times as the run before.
C22_ResetAtRunStart ==
    /\ [](/\ ArmorDebuffsReset(params).sunder = 0
          /\ ArmorDebuffsReset(ArmorDebuffsReset(params))
                 = ArmorDebuffsReset(params))
    /\ [][RunStartsAgain =>
             /\ params'.sunder = 0
             /\ trinkets'.debuff_controller = trinkets.debuff_controller
         ]_vars
    /\ [](StacksOnSchedule /\ (SunderStacks \in 0..5))
    /\ []((pc = "done" /\ runs.count > 1 /\ ~runs.fresh)
             => (aura_hist.sunder_at = runs.first_sunder_at))

\* A second run on the same Simulation ended with 5 stacks after a first
\* run that had left 5 stacks.
C22_Witness ==
    /\ pc = "done"
    /\ runs.count = 2
    /\ ~runs.fresh
    /\ runs.stacks_before = 5
    /\ SunderStacks = 5
    /\ trinkets.debuff_controller.use_sunder

\* The trackers of the Simulation.
Trackers == {"RipTracker", "RoarTracker"}
TrackedAura(k) == IF k = "RipTracker" THEN "Rip" ELSE "Roar"

\* C23: whatever updates a tracker has received, at times that never
\* decrease, its uptime is a fraction between 0 and 1; and as long as no
\* update inside the measurement window has found the aura active, the
\* uptime is 0 and the proc count is 0.
C23_UptimeIsAFraction ==
    \A k \in Trackers :
       LET tr == trinkets[k]
       IN /\ tr.uptime.den > 0
          /\ tr.uptime.num >= 0
          /\ tr.uptime.num <= tr.uptime.den
          /\ (~aura_hist.seen[TrackedAura(k)])
                => (tr.uptime.num = 0 /\ tr.num_procs = 0)

\* A tracker updated inside the window up to 25 s or later that found the
\* aura up for a part of the time, on two separate occasions.
C23_Witness ==
    /\ pc = "tracker"
    /\ trinkets.RipTracker.last_update >= Sec(25)
    /\ trinkets.RipTracker.uptime.num > 0
    /\ trinkets.RipTracker.uptime.num < trinkets.RipTracker.uptime.den
    /\ trinkets.RipTracker.num_procs = 2

\* Tracker k was updated in the step that is under way.
UpdatedNow(k) ==
    /\ pc \in {"act", "finish"}
    /\ trinkets[k].last_update = time

\* What tracker k reports as the time its aura was up inside the window.
ReportedActiveTime(k) ==
    [num |-> trinkets[k].uptime.num * (trinkets[k].last_update - Sec(15)),
     den |-> trinkets[k].uptime.den]

\* The trackers measure nothing outside the window.
MeasuredInWindow ==
    \A k \in Trackers :
       \/ trinkets[k].last_update = Sec(15)
       \/ InWindow(trinkets[k].last_update)

\* C24: after each update of the Rip and Savage Roar trackers, uptime *
\* (last_update - 15) is the time within (15, last_update] during which the
\* aura was up, and nothing of the first 15 and of the last 15 seconds of
\* the fight is measured.
C24_UptimeIsActiveTime ==
    /\ MeasuredInWindow
    /\ \A k \in Trackers :
          UpdatedNow(k) =>
             (ReportedActiveTime(k).num
                 = aura_hist.active_time[TrackedAura(k)]
                       * ReportedActiveTime(k).den)

\* The run is over and tracker k has counted as many procs as its aura was
\* applied inside the measurement window.
ProcsAreApplications(k) ==
    (pc = "done") =>
        (trinkets[k].num_procs = aura_hist.applications[TrackedAura(k)])

\* deactivate() at the end of the run only clears the active flag.
DeactivateOnlyClearsFlag ==
    [][(pc' = "done") =>
          \A k \in Trackers :
             trinkets'[k] = [trinkets[k] EXCEPT !.active = FALSE]]_vars

\* C25: the proc counter of a tracker is the number of times its aura went
\* from inactive to active inside the measurement window: an application
\* that begins in the window is counted once, a refresh of an aura that is
\* up is not counted, and deactivate() only clears the active flag and
\* leaves the uptime, the time of the last update and the proc count.
C25_ProcsCountApplications ==
    /\ [](\A k \in Trackers : ProcsAreApplications(k))
    /\ DeactivateOnlyClearsFlag

\* A call of run() starts.
RunStarts == (pc = "done") /\ (pc' = "upkeep")

\* C29: a run with log = True and a run with log = False that start from
\* the same Simulation and draw the same random numbers return the same
\* times, damage, energy and combo point lists, the same damage breakdown
\* and the same aura statistics; the flag only decides whether entries are
\* appended to the combat log, which without it stays as it is.
C29_LogInvariance ==
    /\ []((pc = "done" /\ runs.fresh) => (Output = runs.first))
    /\ [][(~RunStarts) =>
             /\ combat_log' >= combat_log
             /\ (~log) => (combat_log' = combat_log)
         ]_vars
    /\ [][RunStarts =>
             (combat_log' = IF log' THEN 0
                            ELSE IF runs'.fresh THEN 0 - 1 ELSE combat_log)
         ]_vars

\* A logged run of at least 20 steps, with random draws that deviated,
\* ended after the same run without the log.
C29_Witness ==
    /\ pc = "done"
    /\ runs.fresh
    /\ log
    /\ combat_log > times.len
    /\ runs.tape # {}
    /\ times.len >= 20
    /\ Output = runs.first

\* A batch of replicates was started.
InBatch == pool.phase \in {"running", "returned"}

\* The replicates that were started, and those whose output was folded.
Started == {k \in 1..pool.n : pool.task[k].state # "queued"}

\* The sum of the first n entries of a sequence of rationals.
RECURSIVE QSum(_, _)
QSum(q, n) == IF n = 0 THEN Q(0) ELSE QAdd(QSum(q, n - 1), q[n])

\* The arithmetic mean of the first n entries.
Mean(q, n) == QDiv(QSum(q, n), n)

\* The values the first replicates returned, in the order of submission.
CastValues(a, key) ==
    [k \in 1..pool.n |-> Q(pool.task[k].output.dmg_breakdown[a][key])]
ProcValues(row) ==
    [k \in 1..pool.n |-> Q(pool.task[k].output.aura_stats[row][2])]
UptimeValues(row) ==
    [k \in 1..pool.n |-> pool.task[k].output.aura_stats[row][3]]

\* The accumulators hold the means of the replicates folded so far.
AccumulatorsAreMeans ==
    /\ \A j \in 1..pool.n :
          pool.dps_vals[j] = IF j <= pool.i
                             THEN pool.task[j].output.avg_dps ELSE 0
    /\ (pool.detailed /\ pool.i >= 1) =>
          /\ \A a \in DOMAIN pool.cast_sum :
                /\ pool.cast_sum[a].casts
                       = Mean(CastValues(a, "casts"), pool.i)
                /\ pool.cast_sum[a].damage
                       = Mean(CastValues(a, "damage"), pool.i)
          /\ \A row \in DOMAIN pool.aura_sum :
                /\ pool.aura_sum[row][2] = Mean(ProcValues(row), pool.i)
                /\ pool.aura_sum[row][3] = Mean(UptimeValues(row), pool.i)

\* C26: in whatever order the workers finish, run_replicates folds the
\* outputs one at a time and in the order of submission, in the parent
\* alone (a fold changes no worker and no replicate); after every fold each
\* aggregated casts, damage, procs and uptime value is the arithmetic mean
\* of the replicates folded so far, so after n replicates of all n, and
\* dps_vals[i] holds the result of replicate i.
C26_FoldInSubmissionOrder ==
    /\ [](InBatch => AccumulatorsAreMeans)
    /\ [][(InBatch /\ pool'.i # pool.i) =>
             /\ pool'.i = pool.i + 1
             /\ pool.task[pool'.i].state = "done"
             /\ pool'.folded = 1..pool'.i
             /\ pool'.task = pool.task
             /\ pool'.worker = pool.worker
         ]_vars

\* Three replicates with detailed output were folded, the second of which
\* had finished before the first.
C26_Witness ==
    /\ pool.phase = "returned"
    /\ pool.n = 3
    /\ pool.detailed
    /\ pool.completed[1] = 2
    /\ pool.i = 3

\* C27: every replicate of run_replicates runs on its own copy of the
\* parent's Simulation, which no replicate writes to, and makes its first
\* random draw from a state seeded for it alone, which no other replicate
\* and not the parent has; and when iterate has returned, fight_length is
\* what it was before the call.
C27_ReplicatesIsolated ==
    /\ InBatch =>
          /\ pool.parent = SimObject(fight_length)
          /\ \A k \in Started :
                /\ pool.task[k].began_from = pool.parent
                /\ pool.task[k].rng # InheritedRng
                /\ \A j \in Started \ {k} :
                      pool.task[j].rng # pool.task[k].rng
                /\ (pool.task[k].state = "done") =>
                      (pool.task[k].object.fight_length
                          = pool.task[k].began_from.fight_length)
    /\ \A c \in 1..Len(pool.calls) :
          pool.calls[c].after.fight_length = pool.calls[c].before.fight_length

\* Three replicates ran on two workers, after a call of iterate on the
\* Simulation itself, with fight lengths that differed during the runs.
C27_Witness ==
    /\ pool.phase = "returned"
    /\ pool.n = 3
    /\ Len(pool.calls) >= 1
    /\ \E j, k \in Started : Jitter(pool.task[j].rng) # Jitter(pool.task[k].rng)
    /\ \A k \in Started : pool.task[k].object.ran = k

\* The replicates that returned: the argument each was called with and
\* what it returned.
Returned ==
    {[arg |-> pool.calls[c].arg, output |-> pool.calls[c].output] :
        c \in 1..Len(pool.calls)}
    \cup (IF InBatch
          THEN {[arg |-> pool.task[k].arg, output |-> pool.task[k].output] :
                   k \in {j \in 1..pool.n : pool.task[j].state = "done"}}
          ELSE {})

\* C28: iterate takes a seed, and two replicates run with the same seed
\* return the same output.
C28_SameSeedSameOutput ==
    \A a, b \in Returned : (a.arg = b.arg) => (a.output = b.output)


\* ---------------------------------------------------------------- C30
KnownKeys == DOMAIN default_params \cup DOMAIN default_strategy
SupportedDebuffs == DOMAIN default_params \ {"boss_armor"}
UnknownGiven == {i \in 1..Len(obs.kwargs) : obs.kwargs[i][1] \notin KnownKeys}
Given(key) == \E i \in 1..Len(obs.kwargs) : obs.kwargs[i][1] = key
Expected(key, default) ==
    IF Given(key)
    THEN obs.kwargs[CHOOSE i \in 1..Len(obs.kwargs) :
                        obs.kwargs[i][1] = key][2]
    ELSE default[key]
JustConstructed == (pc = "constructed") /\ (obs.calls = 0)
UnsupportedListed ==
    {i \in 1..Len(obs.debuff_list) :
        obs.debuff_list[i] \notin SupportedDebuffs}

\* An unknown keyword ends the constructor with a KeyError that names the
\* first such key and lists the keys of both dictionaries.
UnknownKeyFails ==
    ((pc \in {"constructed", "raised"}) /\ (obs.calls = 0)
        /\ (UnknownGiven # {}))
    => /\ pc = "raised"
       /\ error.type = "KeyError"
       /\ \E i \in UnknownGiven :
            /\ \A j \in UnknownGiven : i <= j
            /\ error.key = obs.kwargs[i][1]
       /\ error.params_keys = DOMAIN default_params
       /\ error.strategy_keys = DOMAIN default_strategy

\* The strategy holds the given values and the defaults for the rest.
StrategyOverridden ==
    JustConstructed
    => /\ DOMAIN cfg.strategy = DOMAIN default_strategy
       /\ \A key \in DOMAIN default_strategy :
            cfg.strategy[key] = Expected(key, default_strategy)

\* An unsupported name ends set_active_debuffs with a ValueError that
\* lists the names left over and the keys of params.
UnsupportedDebuffFails(listing) ==
    ((pc \in {"constructed", "raised"}) /\ (obs.calls = 1)
        /\ (UnsupportedListed # {}))
    => /\ pc = "raised"
       /\ error.type = "ValueError"
       /\ \A i \in UnsupportedListed :
            \E j \in 1..Len(error.unsupported) :
                error.unsupported[j] = obs.debuff_list[i]
       /\ listing

\* C30 as stated: an unknown keyword fails the construction with an error
\* that names the key and lists the supported keys; every recognised
\* keyword overrides its own default and the other parameters keep
\* theirs; an unsupported debuff name is rejected with an error that lists
\* the offending and the supported names.
C30_KeywordsOverrideDefaults ==
    /\ UnknownKeyFails
    /\ StrategyOverridden
    /\ JustConstructed
       => /\ DOMAIN params = DOMAIN default_params
          /\ \A key \in DOMAIN default_params :
               params[key] = Expected(key, default_params)
    /\ UnsupportedDebuffFails(SupportedDebuffs \subseteq error.supported)

\* C30, amended: as above, except that the 'sunder' keyword does not stay
\* in params: it becomes the controller's use_sunder flag and
\* params['sunder'] starts at 0 stacks; and the ValueError lists the keys
\* of params, which are the supported names and 'boss_armor'.
C30_KeywordsOverrideExceptSunder ==
    /\ UnknownKeyFails
    /\ StrategyOverridden
    /\ JustConstructed
       => /\ DOMAIN params = DOMAIN default_params
          /\ \A key \in DOMAIN default_params \ {"sunder"} :
               params[key] = Expected(key, default_params)
          /\ params.sunder = 0
          /\ trinkets.debuff_controller.use_sunder
                = (Expected("sunder", default_params) # 0)
    /\ UnsupportedDebuffFails(error.supported = DOMAIN default_params)

\* A Simulation constructed with sunder=True and another recognised
\* keyword.
C30_Witness ==
    /\ JustConstructed
    /\ Len(obs.kwargs) = 2
    /\ Given("sunder")
    /\ Expected("sunder", default_params) = 1
    /\ params.sunder = 0
    /\ trinkets.debuff_controller.use_sunder


\* ---------------------------------------------------------------- C31
\* C31: negative mana does not stop a run, which ends past the fight
\* length; time_to_oom is the time of the first shift that left the mana
\* negative, from that shift on and for the rest of the run; iterate
\* reports that time, or the fight length of the run when the mana never
\* went negative.
C31_OomIsFirstNegativeShift ==
    /\ (pc \in {"done", "returned"}) => (time > fight_length)
    /\ self.time_to_oom = aura_hist.oom
    /\ (pc = "returned")
       => runs.oom_time = IF aura_hist.oom = None THEN fight_length
                          ELSE aura_hist.oom

\* ---------------------------------------------------------------- C32
\* C32: when calc_deriv returns, every attribute of the player, the
\* incremented one and those adjusted with it included, has the value it
\* had before the call, so every derivative is taken against the player
\* calc_stat_weights started with.
C32_DerivRoundTrip ==
    ((pc = "weights") /\ (obs.stat > 0))
    => /\ \A a \in DOMAIN player : player[a] = obs.before[a]
       /\ player = obs.baseline


\* ---------------------------------------------------------------- C33
\* The cost of the first k pending refreshes.
RECURSIVE SumTo(_, _)
SumTo(pend, k) == IF k = 0 THEN 0 ELSE SumTo(pend, k - 1) + pend[k][2]

\* A decision point at which the reservation is computed.
ReservationComputed ==
    (pc = "act") /\ AbleToAct(self, player, time) /\ ~player.ready_to_shift

\* C33: the floating energy is not negative, at most the cost of all the
\* pending refreshes, enough for every pending refresh to be affordable
\* when it is due with a regeneration of 10 Energy per second and nothing
\* else spent, and the least such amount: with half a point less, some
\* refresh would not be affordable when due.
C33_FloatingEnergyIsLeastReserve ==
    ReservationComputed
    => LET pend == pending_actions(self, player, time)
           R == floating_energy(self, player, time)
       IN /\ R >= 0
          /\ R <= SumTo(pend, Len(pend))
          /\ \A k \in 1..Len(pend) :
               /\ (k > 1) => (pend[k - 1][1] <= pend[k][1])
               /\ 10 * R + (pend[k][1] - time) >= 10 * SumTo(pend, k)
          /\ (R > 0)
             => \E k \in 1..Len(pend) :
                  10 * (R - 1) + (pend[k][1] - time) < 10 * SumTo(pend, k)

\* A decision point with several refreshes pending, of which regeneration
\* pays for the first but not for all.
C33_Witness ==
    /\ ReservationComputed
    /\ LET pend == pending_actions(self, player, time)
           R == floating_energy(self, player, time)
       IN /\ Len(pend) >= 2
          /\ (pend[1][1] - time) >= 10 * pend[1][2]
          /\ R > 0
          /\ R < SumTo(pend, Len(pend))

\* ---------------------------------------------------------------- C34
\* C34: a step starts with the clock at or before the first entry of the
\* swing schedule, and the schedule is not empty where the loop reads its
\* first entry: at the swing check, at a shift and at the time update.
C34_SwingScheduleReadable ==
    /\ ((pc \in {"upkeep", "bleeds", "swing"}) /\ (time <= fight_length))
       => /\ Len(self.swing_times) >= 1
          /\ time <= self.swing_times[1]
    /\ ((pc = "act") /\ AbleToAct(self, player, time)
          /\ player.ready_to_shift)
       => Len(self.swing_times) >= 1
    /\ (pc = "finish") => (Len(self.swing_times) >= 1)

\* ---------------------------------------------------------------- C35
\* C35: whenever Rip or Rake is active where the main loop reads the first
\* entry of its tick schedule (the tick check at the top of an iteration,
\* the next-event computation at its bottom), the schedule is non-empty
\* and its last entry equals the end time of the aura, after any sequence
\* of applications, ticks, glyph extensions and expiries.
C35_ScheduleEndsWithAura ==
    (pc \in {"bleeds", "finish"}) =>
        /\ self.rip_debuff =>
              /\ self.rip_ticks # << >>
              /\ self.rip_ticks[Len(self.rip_ticks)] = self.rip_end
        /\ self.rake_debuff =>
              /\ self.rake_ticks # << >>
              /\ self.rake_ticks[Len(self.rake_ticks)] = self.rake_end

\* ---------------------------------------------------------------- C36
\* The decision engine has just run and has flagged a form shift.
ShiftFlagged ==
    /\ pc = "finish" /\ obs.decided
    /\ ~obs.pre_p.ready_to_shift /\ player.ready_to_shift

\* The decision engine has just run with the flag set.
FlaggedInvocation ==
    pc = "finish" /\ obs.decided /\ obs.pre_p.ready_to_shift

\* What a shift changes of the Simulation.
ShiftFields == {"swing_times", "swing_timer", "time_to_oom"}

\* That invocation performed the shift and nothing else: the form has
\* changed, the flag is cleared, and of the Simulation only the swing
\* schedule (and the time of running out of mana) has changed. The next swing is the one that was scheduled, and
\* the swings after it are spaced by the timer of the new form.
ShiftAndNothingElse ==
    /\ obs.cast = "Shift"
    /\ ~player.ready_to_shift
    /\ player.cat_form # obs.pre_p.cat_form
    /\ \A f \in (DOMAIN self) \ ShiftFields : self[f] = obs.pre[f]
    /\ self.swing_times[1] = obs.pre.swing_times[1]
    /\ self.swing_timer = IF player.cat_form
                          THEN (obs.pre.swing_timer * 2) \div 5
                          ELSE (obs.pre.swing_timer * 5) \div 2
    /\ \A i \in 1..(Len(self.swing_times) - 1) :
          self.swing_times[i + 1] - self.swing_times[i] = self.swing_timer

\* The next invocation is made no earlier than the input latency after the
\* decision: it is scheduled that late, and is not moved forward while the
\* flag is set.
ShiftAfterLatency ==
    /\ ShiftFlagged' => (self'.next_action >= time' + latency)
    /\ (player.ready_to_shift /\ player'.ready_to_shift) =>
           (self'.next_action >= self.next_action)

\* C36 (as stated): once the decision engine has flagged a form shift, no
\* ability is cast before the shift (Tiger's Fury, which the main loop
\* casts at the end of an iteration, included); the next invocation of the
\* decision engine performs the shift and nothing else, no earlier than
\* the input latency after the decision, and the shift keeps the scheduled
\* next swing while rescaling the swing timer for the swings after it.
C36_NothingCastBeforeShift ==
    [][/\ ShiftAfterLatency
       /\ FlaggedInvocation' => ShiftAndNothingElse'
       /\ (pc = "finish" /\ player.ready_to_shift) => ~tf_now(player)]_vars

\* C36 (amended): once the decision engine has flagged a form shift, the
\* decision engine casts no ability before the shift (the main loop may
\* still cast Tiger's Fury): its next invocation performs the shift and
\* nothing else, no earlier than the input latency after the decision, and
\* the shift keeps the scheduled next swing while rescaling the swing
\* timer for the swings after it.
C36_EngineShiftsNext ==
    [][/\ ShiftAfterLatency
       /\ FlaggedInvocation' => ShiftAndNothingElse']_vars

\* A flagged shift was performed, with swings left to reschedule.
C36_Witness ==
    /\ FlaggedInvocation
    /\ obs.cast = "Shift"
    /\ time >= obs.pre.next_action
    /\ Len(self.swing_times) >= 2

\* ---------------------------------------------------------------- C37
\* The controller and the trackers that a list holds.
OwnKinds == {"ArmorDebuffs", "RipTracker", "RoarTracker"}
Internals(list) ==
    {list[i] : i \in {j \in 1..Len(list) : list[j].kind \in OwnKinds}}

\* C37: after constructing a Simulation its trinket list consists of
\* exactly the trinkets the caller supplied plus one armor-debuff
\* controller, one Rip tracker and one Roar tracker, all belonging to that
\* Simulation, however many Simulations were constructed before it, with
\* or without a trinkets argument; no tracker or controller is shared
\* between two Simulations.
C37_OwnTrinketList ==
    (pc = "simulations") =>
        \A k \in 1..Len(trinkets.sims) :
            LET sim == trinkets.sims[k]
                list == trinkets.lists[sim.trinkets]
            IN /\ list = sim.supplied \o <<Object("ArmorDebuffs", sim.number),
                                           Object("RipTracker", sim.number),
                                           Object("RoarTracker", sim.number)>>
               /\ sim.debuff_controller = Object("ArmorDebuffs", sim.number)
               /\ \A j \in 1..Len(trinkets.sims) :
                     (j # k) =>
                        Internals(list)
                        \cap Internals(trinkets.lists[trinkets.sims[j].trinkets])
                        = {}

\* ---------------------------------------------------------------- C38
\* set_active_debuffs has been called, and has returned or raised.
DebuffsCalled == (pc \in {"constructed", "raised"}) /\ (obs.calls = 1)

\* C38: set_active_debuffs raises if and only if the list it is given
\* holds a name that is not a supported debuff; when it raises, the debuff
\* parameters of the Simulation and the enabled flag of the armor-debuff
\* controller are what they were before the call; the caller's list is
\* never modified.
C38_DebuffsCheckedBeforeSet ==
    DebuffsCalled =>
        /\ (pc = "raised") <=> (UnsupportedListed # {})
        /\ (pc = "raised") =>
              /\ params = obs.params
              /\ trinkets.debuff_controller.use_sunder
                     = obs.debuff_controller.use_sunder
        /\ obs.debuff_list = obs.given

\* ---------------------------------------------------------------- C39
\* The decision engine has just cast Ferocious Bite, with use_bite off.
BiteWithoutOption ==
    /\ pc = "finish" /\ obs.decided /\ obs.cast = "Bite"
    /\ ~strategy.use_bite

\* C39 (as stated): with the strategy option use_bite set to False,
\* Ferocious Bite is never cast at any decision point of a run, whatever
\* the combo points, the remaining fight time or the state of Rip.
C39_NoBiteWithoutOption == ~BiteWithoutOption

\* C39 (amended): with the strategy option use_bite set to False,
\* Ferocious Bite is cast at a decision point only at the end of the
\* fight: with at least min_combos_for_bite combo points and no
\* Clearcasting proc, when less than 10 seconds of the fight remain or Rip
\* is active and ends less than 10 seconds before the fight does.
C39_BiteOnlyAtEndWithoutOption ==
    BiteWithoutOption =>
        /\ obs.pre_p.combo_points >= strategy.min_combos_for_bite
        /\ ~obs.pre_p.omen_proc
        /\ \/ fight_length - time < Sec(10)
           \/ /\ obs.pre.rip_debuff
              /\ fight_length - obs.pre.rip_end < Sec(10)

\* Ferocious Bite was cast, with use_bite off, at the end of the fight.
C39_Witness ==
    /\ BiteWithoutOption
    /\ obs.landed
    /\ player.combo_points = 0

\* ---------------------------------------------------------------- C40
\* The step that ends the loop body casts Tiger's Fury.
TigersFuryCast ==
    /\ pc = "finish"
    /\ Len(aura_hist'.tf_at) = Len(aura_hist.tf_at) + 1

\* The Energy below which Tiger's Fury is cast: 40, less what regenerates
\* over the longer of the global cooldown and the latency, less 10 when a
\* Clearcasting proc is pending.
TigersFuryThreshold(p) ==
    En(40) - RegenOver(Max(p.gcd, latency))
    - (IF p.omen_proc THEN En(10) ELSE 0)

\* C40: Tiger's Fury is cast only in Cat Form, with its cooldown fully
\* elapsed, while Berserk is not active and with Energy below
\* 40 - 10 * (max(gcd, latency) + Clearcasting pending); the cast adds the
\* full 60 Energy and leaves the Energy below 100, starts the 30 second
\* cooldown and the 6 second buff, and comes at least 30 seconds after
\* every earlier cast of the run.
C40_TigersFuryConditions ==
    [][TigersFuryCast =>
          /\ player.cat_form
          /\ player.tf_cd = 0
          /\ ~player.berserk
          /\ player.energy < TigersFuryThreshold(player)
          /\ player'.energy = player.energy + En(60)
          /\ player'.energy < En(100)
          /\ player'.tf_cd = Sec(30)
          /\ self'.tigers_fury /\ self'.tf_end = time + Sec(6)
          /\ \A n \in 1..Len(aura_hist.tf_at) :
                time - aura_hist.tf_at[n] >= Sec(30)]_vars

\* Tiger's Fury has just been cast for the second time in one run.
C40_Witness ==
    /\ Len(aura_hist.tf_at) >= 2
    /\ pc = "upkeep"
    /\ self.tf_end = aura_hist.tf_at[Len(aura_hist.tf_at)] + Sec(6)
    /\ player.tf_cd = Sec(30)

=============================================================================
